---- MODULE Spec2Model ----
(***************************************************************************)
(* DeArrow Browser: the reload controller (do_reload / request_reload),    *)
(* the string pool (StringSet), the CSV loader (DearrowDB::load) and the   *)
(* read handlers that look a caller's string up in the pool and then scan  *)
(* the snapshot by pointer identity.                                       *)
(*                                                                         *)
(* An Arc<str> is modelled as a handle [str, id]: str is the content, id   *)
(* the allocation.  Two handles are pointer-equal iff they are the same    *)
(* record; they are byte-equal iff their str fields agree.                 *)
(***************************************************************************)
EXTENDS Integers, Sequences, FiniteSets, TLC

(***************************************************************************)
(* Bounds of the model.                                                    *)
(***************************************************************************)
\* reload requests that pass the authentication in one behaviour
MaxReloads == 2
\* rows of titles.csv in one mirror directory
MaxRows == 2
\* largest value of the wall clock, in milliseconds
MaxClock == 1
\* largest start time, end time and duration of a segment, in seconds
MaxTime == 3
\* rows of sponsorTimes.csv for one video
MaxSegs == 2
MaxDur == 2

NoProc == "none"
NoHandle == [str |-> "", id |-> <<>>]

Reloaders == {"w1", "w2"}
Readers == {"r1"}

(***************************************************************************)
(* Handles and the string pool (StringSet).                                *)
(***************************************************************************)
\* the Arc<str> serde allocates for a field: load number g, k-th string read
Fresh(c, g, k) == [str |-> c, id |-> <<g, k>>]

\* HashSet::get: the pool's entry whose content equals that of ref
PoolGet(set, c) ==
    IF \E s \in set : s.str = c THEN CHOOSE s \in set : s.str = c ELSE NoHandle

\* a dedupe_arc that inserts without looking the content up
DedupeArcNoLookup(set, ref) == [set |-> set \cup {ref}, ref |-> ref]

\* StringSet::dedupe_arc: the handle afterwards, and the pool afterwards
DedupeArc(set, ref) ==
    IF \E s \in set : s.str = ref.str
    THEN [set |-> set, ref |-> PoolGet(set, ref.str)]
    ELSE [set |-> set \cup {ref}, ref |-> ref]

\* a clean that drops every entry
CleanAll(set, held) == {}

\* StringSet::clean: keep the entries with strong_count > 1, that is the
\* entries some holder other than the pool references
Clean(set, held) == {s \in set : s \in held}

(***************************************************************************)
(* The CSV loader, DearrowDB::load.  A row of a CSV file is a record of    *)
(* the contents serde deserializes; the loader allocates a fresh handle    *)
(* for every string field and passes it through the pool.                  *)
(***************************************************************************)
EmptyMap == [x \in {} |-> x]

\* the intbool! macro: the boolean, or "invalid"
IntBool(v, falseint, trueint) ==
    IF v = falseint THEN "false" ELSE IF v = trueint THEN "true" ELSE "invalid"

HexDigits == <<"0", "1", "2", "3", "4", "5", "6", "7",
               "8", "9", "a", "b", "c", "d", "e", "f">>

IsHex(ch) == \E n \in 1..Len(HexDigits) : HexDigits[n] = ch

HexVal(ch) == (CHOOSE n \in 1..Len(HexDigits) : HexDigits[n] = ch) - 1

\* SHA-256 is not computed: the first 16 bits of the digest of each video id
\* of the model are tabulated, distinct ids having distinct prefixes here
compute_hashprefix(v) ==
    CASE v = "a" -> 51863
      [] v = "b" -> 15907
      [] OTHER   -> 19040

\* u16::from_str_radix(&hashed_video_id[..4], 16), or compute_hashprefix;
\* from_str_radix accepts one leading plus sign before the digits
HashPrefix(hashed_video_id, video_id) ==
    IF \A n \in 1..4 : IsHex(hashed_video_id[n])
    THEN HexVal(hashed_video_id[1]) * 4096 + HexVal(hashed_video_id[2]) * 256
         + HexVal(hashed_video_id[3]) * 16 + HexVal(hashed_video_id[4])
    ELSE IF hashed_video_id[1] = "+" /\ \A n \in 2..4 : IsHex(hashed_video_id[n])
         THEN HexVal(hashed_video_id[2]) * 256 + HexVal(hashed_video_id[3]) * 16
              + HexVal(hashed_video_id[4])
         ELSE compute_hashprefix(video_id.str)

\* the slice [..4] panics on a string shorter than four bytes
SlicePanics(hashed_video_id) == Len(hashed_video_id) < 4

\* the votes and timestamps tables: HashMap keyed by the UUID's content
RECURSIVE LoadKeyed(_, _, _, _, _)
LoadKeyed(rows, i, g, table, acc) ==
    IF i > Len(rows) THEN acc
    ELSE LET d == DedupeArc(acc.set, Fresh(rows[i].uuid, g, acc.k))
             row == [rows[i] EXCEPT !.uuid = d.ref]
         IN  LoadKeyed(rows, i + 1, g, table,
                 [acc EXCEPT !.set = d.set, !.k = acc.k + 1,
                             ![table] = (rows[i].uuid :> row) @@ acc[table]])

\* csv_data::Title::try_merge
TitleTryMerge(title, votes) ==
    LET original == IntBool(title.original, 0, 1)
        locked == IntBool(votes.locked, 0, 1)
        shadow_hidden == IntBool(votes.shadow_hidden, 0, 1)
        unverified == IntBool(votes.verification, 0, -1)
        removed == IntBool(votes.removed, 0, 1)
        Invalid(field, value) ==
            [kind |-> "err",
             err |-> [object |-> "Title", error |-> "InvalidValue",
                      uuid |-> title.uuid, field |-> field, value |-> value]]
    IN  IF title.uuid.str # votes.uuid.str
        THEN [kind |-> "err",
              err |-> [object |-> "Title", error |-> "MismatchedUUIDs",
                       uuid |-> title.uuid, field |-> "TitleVotes", value |-> 0]]
        ELSE IF original = "invalid" THEN Invalid("original", title.original)
        ELSE IF locked = "invalid" THEN Invalid("locked", votes.locked)
        ELSE IF shadow_hidden = "invalid"
             THEN Invalid("shadow_hidden", votes.shadow_hidden)
        ELSE IF unverified = "invalid"
             THEN Invalid("verification", votes.verification)
        ELSE IF removed = "invalid" THEN Invalid("removed", votes.removed)
        ELSE IF SlicePanics(title.hashed_video_id) THEN [kind |-> "panic"]
        ELSE [kind |-> "ok",
              row |-> [uuid |-> title.uuid,
                       title |-> title.title,
                       user_id |-> title.user_id,
                       time_submitted |-> title.time_submitted,
                       votes |-> votes.votes,
                       downvotes |-> votes.downvotes,
                       flags |-> {f \in {"Original", "Locked", "ShadowHidden",
                                         "Unverified", "Removed"} :
                                    \/ f = "Original" /\ original = "true"
                                    \/ f = "Locked" /\ locked = "true"
                                    \/ f = "ShadowHidden" /\ shadow_hidden = "true"
                                    \/ f = "Unverified" /\ unverified = "true"
                                    \/ f = "Removed" /\ removed = "true"},
                       hash_prefix |-> HashPrefix(title.hashed_video_id,
                                                  title.video_id),
                       video_id |-> title.video_id]]

\* the titles table: dedupe, join with the votes, merge
RECURSIVE LoadTitles(_, _, _, _)
LoadTitles(rows, i, g, acc) ==
    IF i > Len(rows) \/ acc.panic THEN acc
    ELSE LET d1 == DedupeArc(acc.set, Fresh(rows[i].uuid, g, acc.k))
             d2 == DedupeArc(d1.set, Fresh(rows[i].title, g, acc.k + 1))
             d3 == DedupeArc(d2.set, Fresh(rows[i].video_id, g, acc.k + 2))
             d4 == DedupeArc(d3.set, Fresh(rows[i].user_id, g, acc.k + 3))
             title == [rows[i] EXCEPT !.uuid = d1.ref, !.title = d2.ref,
                                      !.video_id = d3.ref, !.user_id = d4.ref]
             next == [acc EXCEPT !.set = d4.set, !.k = acc.k + 4]
             m == IF rows[i].uuid \notin DOMAIN acc.title_votes
                  THEN [kind |-> "err",
                        err |-> [object |-> "Title", error |-> "MissingSubobject",
                                 uuid |-> title.uuid, field |-> "TitleVotes",
                                 value |-> 0]]
                  ELSE TitleTryMerge(title, acc.title_votes[rows[i].uuid])
         IN  CASE m.kind = "ok" ->
                    LoadTitles(rows, i + 1, g,
                        [next EXCEPT !.titles = Append(acc.titles, m.row)])
               [] m.kind = "err" ->
                    LoadTitles(rows, i + 1, g,
                        [next EXCEPT !.errors = Append(acc.errors, m.err)])
               [] OTHER -> [next EXCEPT !.panic = TRUE]

\* csv_data::Thumbnail::try_merge; timestamps is a row or NoRow
NoRow == [uuid |-> NoHandle]

\* a merge that accepts a thumbnail without its timestamps row
NeverNeedsTimestamp(original, timestamps) == FALSE

\* !flags.contains(Original) && timestamps.is_none()
NeedsTimestamp(original, timestamps) == original # "true" /\ timestamps = NoRow

ThumbnailTryMerge(thumb, timestamps, votes) ==
    LET original == IntBool(thumb.original, 0, 1)
        locked == IntBool(votes.locked, 0, 1)
        shadow_hidden == IntBool(votes.shadow_hidden, 0, 1)
        removed == IntBool(votes.removed, 0, 1)
        Err(error, field, value) ==
            [kind |-> "err",
             err |-> [object |-> "Thumbnail", error |-> error,
                      uuid |-> thumb.uuid, field |-> field, value |-> value]]
    IN  IF timestamps # NoRow /\ thumb.uuid.str # timestamps.uuid.str
        THEN Err("MismatchedUUIDs", "ThumbnailTimestamps", 0)
        ELSE IF thumb.uuid.str # votes.uuid.str
        THEN Err("MismatchedUUIDs", "ThumbnailVotes", 0)
        ELSE IF original = "invalid"
             THEN Err("InvalidValue", "original", thumb.original)
        ELSE IF locked = "invalid" THEN Err("InvalidValue", "locked", votes.locked)
        ELSE IF shadow_hidden = "invalid"
             THEN Err("InvalidValue", "shadow_hidden", votes.shadow_hidden)
        ELSE IF removed = "invalid"
             THEN Err("InvalidValue", "removed", votes.removed)
        ELSE IF NeedsTimestamp(original, timestamps)
             THEN Err("MissingSubobject", "ThumbnailTimestamps", 0)
        ELSE IF SlicePanics(thumb.hashed_video_id) THEN [kind |-> "panic"]
        ELSE [kind |-> "ok",
              row |-> [uuid |-> thumb.uuid,
                       user_id |-> thumb.user_id,
                       time_submitted |-> thumb.time_submitted,
                       timestamp |-> IF timestamps = NoRow THEN <<>>
                                     ELSE <<timestamps.timestamp>>,
                       votes |-> votes.votes,
                       downvotes |-> votes.downvotes,
                       flags |-> {f \in {"Original", "Locked", "ShadowHidden",
                                         "Removed"} :
                                    \/ f = "Original" /\ original = "true"
                                    \/ f = "Locked" /\ locked = "true"
                                    \/ f = "ShadowHidden" /\ shadow_hidden = "true"
                                    \/ f = "Removed" /\ removed = "true"},
                       hash_prefix |-> HashPrefix(thumb.hashed_video_id,
                                                  thumb.video_id),
                       video_id |-> thumb.video_id]]

\* the thumbnails table: dedupe, join with timestamps and votes, merge
RECURSIVE LoadThumbnails(_, _, _, _)
LoadThumbnails(rows, i, g, acc) ==
    IF i > Len(rows) \/ acc.panic THEN acc
    ELSE LET d1 == DedupeArc(acc.set, Fresh(rows[i].uuid, g, acc.k))
             d2 == DedupeArc(d1.set, Fresh(rows[i].video_id, g, acc.k + 1))
             d3 == DedupeArc(d2.set, Fresh(rows[i].user_id, g, acc.k + 2))
             thumb == [rows[i] EXCEPT !.uuid = d1.ref, !.video_id = d2.ref,
                                      !.user_id = d3.ref]
             timestamp == IF rows[i].uuid \in DOMAIN acc.thumbnail_timestamps
                          THEN acc.thumbnail_timestamps[rows[i].uuid] ELSE NoRow
             next == [acc EXCEPT !.set = d3.set, !.k = acc.k + 3]
             m == IF rows[i].uuid \notin DOMAIN acc.thumbnail_votes
                  THEN [kind |-> "err",
                        err |-> [object |-> "Thumbnail", error |-> "MissingSubobject",
                                 uuid |-> thumb.uuid, field |-> "ThumbnailVotes",
                                 value |-> 0]]
                  ELSE ThumbnailTryMerge(thumb, timestamp,
                                         acc.thumbnail_votes[rows[i].uuid])
         IN  CASE m.kind = "ok" ->
                    LoadThumbnails(rows, i + 1, g,
                        [next EXCEPT !.thumbnails = Append(acc.thumbnails, m.row)])
               [] m.kind = "err" ->
                    LoadThumbnails(rows, i + 1, g,
                        [next EXCEPT !.errors = Append(acc.errors, m.err)])
               [] OTHER -> [next EXCEPT !.panic = TRUE]

\* the usernames table: HashMap keyed by the user id's content
RECURSIVE LoadUsernames(_, _, _, _)
LoadUsernames(rows, i, g, acc) ==
    IF i > Len(rows) THEN acc
    ELSE LET d1 == DedupeArc(acc.set, Fresh(rows[i].user_id, g, acc.k))
             d2 == DedupeArc(d1.set, Fresh(rows[i].username, g, acc.k + 1))
             locked == IntBool(rows[i].locked, 0, 1)
             next == [acc EXCEPT !.set = d2.set, !.k = acc.k + 2]
         IN  IF locked = "invalid"
             THEN LoadUsernames(rows, i + 1, g,
                      [next EXCEPT !.errors = Append(acc.errors,
                          [object |-> "Username", error |-> "InvalidValue",
                           uuid |-> d1.ref, field |-> "locked",
                           value |-> rows[i].locked])])
             ELSE LoadUsernames(rows, i + 1, g,
                      [next EXCEPT !.usernames = (rows[i].user_id :>
                          [user_id |-> d1.ref, username |-> d2.ref,
                           locked |-> locked = "true"]) @@ acc.usernames])

\* the VIP table: a HashSet of user ids
RECURSIVE LoadVips(_, _, _, _)
LoadVips(rows, i, g, acc) ==
    IF i > Len(rows) THEN acc
    ELSE LET d == DedupeArc(acc.set, Fresh(rows[i].user_id, g, acc.k))
         IN  LoadVips(rows, i + 1, g,
                 [acc EXCEPT !.set = d.set, !.k = acc.k + 1,
                             !.vip_users = acc.vip_users \cup {d.ref}])

(***************************************************************************)
(* Video information from the SponsorBlock segments.  Times are whole      *)
(* seconds; an UncutSegment's offset and length are fractions of the       *)
(* duration d the reducer divides by, kept as numerators over d (the       *)
(* VideoInfo's field unit): 0. is 0 and 1. is d.                           *)
(***************************************************************************)
\* csv_data::SponsorTime::filter_and_split, the filter
Contributes(row) ==
    /\ row.votes > -2
    /\ row.shadow_hidden = 0
    /\ row.hidden = 0
    /\ row.action_type = "skip"

\* the sponsorTimes table: video_durations and segments, keyed by the hash
\* prefix and the video id's content
RECURSIVE LoadSponsorTimes(_, _, _, _)
LoadSponsorTimes(rows, i, g, acc) ==
    IF i > Len(rows) \/ acc.panic THEN acc
    ELSE LET d == DedupeArc(acc.set, Fresh(rows[i].video_id, g, acc.k))
             next == [acc EXCEPT !.set = d.set, !.k = acc.k + 1]
             key == <<HashPrefix(rows[i].hashed_video_id, d.ref), rows[i].video_id>>
             duration == [video_id |-> d.ref,
                          video_duration |-> rows[i].video_duration,
                          time_submitted |-> rows[i].time_submitted,
                          has_outro |-> rows[i].category = "outro"]
             segment == [video_id |-> d.ref,
                         start_time |-> rows[i].start_time,
                         end_time |-> rows[i].end_time]
             old == acc.durations[key]
             merged ==
                 IF key \notin DOMAIN acc.durations THEN duration
                 ELSE IF old.time_submitted < duration.time_submitted
                      THEN [duration EXCEPT
                                !.has_outro = duration.has_outro \/ old.has_outro]
                      ELSE [old EXCEPT
                                !.has_outro = old.has_outro \/ duration.has_outro]
             pushed == IF key \in DOMAIN acc.segments
                       THEN Append(acc.segments[key], segment) ELSE <<segment>>
         IN  IF SlicePanics(rows[i].hashed_video_id)
             THEN [next EXCEPT !.panic = TRUE]
             ELSE IF Contributes(rows[i])
             THEN LoadSponsorTimes(rows, i + 1, g,
                      [next EXCEPT !.durations = (key :> merged) @@ acc.durations,
                                   !.segments = (key :> pushed) @@ acc.segments])
             ELSE LoadSponsorTimes(rows, i + 1, g, next)

\* sort_unstable_by start_time, as an insertion sort
RECURSIVE SortByStart(_)
SortByStart(segs) ==
    IF Len(segs) <= 1 THEN segs
    ELSE LET rest == SortByStart(Tail(segs))
             x == Head(segs)
             n == Cardinality({j \in 1..Len(rest) : rest[j].start_time < x.start_time})
         IN  SubSeq(rest, 1, n) \o <<x>> \o SubSeq(rest, n + 1, Len(rest))

Min(a, b) == IF a < b THEN a ELSE b

RECURSIVE MaxEnd(_)
MaxEnd(segs) ==
    IF Len(segs) = 1 THEN segs[1].end_time
    ELSE LET m == MaxEnd(Tail(segs))
         IN  IF segs[1].end_time > m THEN segs[1].end_time ELSE m

\* the walk over the sorted segments of one video, d the duration divided by
RECURSIVE Walk(_, _, _, _)
Walk(segs, i, d, uncut) ==
    IF i > Len(segs) THEN uncut
    ELSE LET offset == segs[i].start_time
             end == Min(segs[i].end_time, d)
             n == Len(uncut)
             last == uncut[n]
         IN  IF segs[i].start_time >= d THEN Walk(segs, i + 1, d, uncut)
             ELSE IF n > 0
             THEN IF last.offset > end THEN Walk(segs, i + 1, d, uncut)
                  ELSE IF last.offset > offset
                  THEN Walk(segs, i + 1, d,
                           [uncut EXCEPT ![n] = [offset |-> end, length |-> d - end]])
                  ELSE Walk(segs, i + 1, d,
                           Append([uncut EXCEPT ![n] =
                                      [offset |-> last.offset,
                                       length |-> offset - last.offset]],
                                  [offset |-> end, length |-> d - end]))
             ELSE Walk(segs, i + 1, d,
                      (IF offset # 0 THEN <<[offset |-> 0, length |-> offset]>>
                       ELSE <<>>)
                      \o (IF segs[i].end_time # d
                          THEN <<[offset |-> end, length |-> d - end]>>
                          ELSE <<>>))

\* the uncut segments of one video
UncutSegments(segs, d) ==
    LET uncut == Walk(SortByStart(segs), 1, d, <<>>)
    IN  IF Len(uncut) > 0
        THEN IF uncut[Len(uncut)].offset = d
             THEN SubSeq(uncut, 1, Len(uncut) - 1) ELSE uncut
        ELSE <<[offset |-> 0, length |-> d]>>

\* video_infos: the VideoInfo of every key of video_durations that has a
\* duration, each tagged with its bucket
VideoInfos(durations, segments) ==
    LET Known(key) ==
            durations[key].video_duration > 0 \/ key \in DOMAIN segments
        Divisor(key) ==
            IF durations[key].video_duration > 0
            THEN durations[key].video_duration ELSE MaxEnd(segments[key])
    IN  {[bucket |-> key[1],
          video_id |-> durations[key].video_id,
          video_duration |-> durations[key].video_duration,
          unit |-> Divisor(key),
          uncut_segments |->
              IF key \in DOMAIN segments
              THEN UncutSegments(segments[key], Divisor(key))
              ELSE <<[offset |-> 0, length |-> Divisor(key)]>>,
          has_outro |-> durations[key].has_outro] :
         key \in {x \in DOMAIN durations : Known(x)}}

\* File::open of the eight files
FilesPresent(mirror) == mirror.present

\* the loader before the first row is read
LoadStart(string_set) ==
    [set |-> string_set, k |-> 0, errors |-> <<>>, panic |-> FALSE,
     thumbnail_timestamps |-> EmptyMap, thumbnail_votes |-> EmptyMap,
     thumbnails |-> <<>>, title_votes |-> EmptyMap, titles |-> <<>>,
     usernames |-> EmptyMap, vip_users |-> {}, durations |-> EmptyMap,
     segments |-> EmptyMap]

\* the eight tables, read in the order of the code
LoadTables(mirror, string_set, g) ==
    LoadSponsorTimes(mirror.sponsor_times, 1, g,
     LoadVips(mirror.vip_users, 1, g,
      LoadUsernames(mirror.usernames, 1, g,
       LoadTitles(mirror.titles, 1, g,
        LoadKeyed(mirror.title_votes, 1, g, "title_votes",
         LoadThumbnails(mirror.thumbnails, 1, g,
          LoadKeyed(mirror.thumbnail_votes, 1, g, "thumbnail_votes",
           LoadKeyed(mirror.thumbnail_timestamps, 1, g, "thumbnail_timestamps",
            LoadStart(string_set)))))))))

\* what load returns from the tables read
LoadResult(mirror, acc) ==
    IF ~FilesPresent(mirror) THEN [result |-> "fatal"]
    ELSE IF acc.panic THEN [result |-> "panic"]
    ELSE [result |-> "ok",
          db |-> [titles |-> acc.titles,
                  thumbnails |-> acc.thumbnails,
                  usernames |-> acc.usernames,
                  vip_users |-> acc.vip_users,
                  video_infos |-> VideoInfos(acc.durations, acc.segments)],
          errors |-> acc.errors,
          set |-> acc.set]

\* DearrowDB::load: "fatal" with nothing, "panic" with nothing, or "ok" with
\* the database, the error list and the pool as the load leaves it
Load(mirror, string_set, g) ==
    LoadResult(mirror, LoadTables(mirror, string_set, g))

(***************************************************************************)
(* The mirror directories a reload may find.                               *)
(***************************************************************************)
\* the hashedVideoID column of a video id: its SHA-256 in hexadecimal
Hashed(v) ==
    CASE v = "a" -> <<"c", "a", "9", "7", "8", "1">>
      [] v = "b" -> <<"3", "e", "2", "3", "e", "8">>
      [] OTHER   -> <<"4", "a", "6", "0", "8", "d">>

TitleRow(u, v, t) ==
    [video_id |-> v, title |-> "a", original |-> 0, user_id |-> "p",
     time_submitted |-> t, uuid |-> u, hashed_video_id |-> Hashed(v)]

TitleVotesRow(u) ==
    [uuid |-> u, votes |-> 0, locked |-> 0, shadow_hidden |-> 0,
     verification |-> 0, downvotes |-> 0, removed |-> 0]

ThumbnailRow(u, v, t) ==
    [video_id |-> v, original |-> 1, user_id |-> "p", time_submitted |-> t,
     uuid |-> u, hashed_video_id |-> Hashed(v)]

ThumbnailVotesRow(u) ==
    [uuid |-> u, votes |-> 0, locked |-> 0, shadow_hidden |-> 0,
     downvotes |-> 0, removed |-> 0]

SponsorTimeRow(v, s, e, d, t) ==
    [video_id |-> v, start_time |-> s, end_time |-> e, video_duration |-> d,
     votes |-> 0, shadow_hidden |-> 0, hidden |-> 0, category |-> "sponsor",
     action_type |-> "skip", hashed_video_id |-> Hashed(v), time_submitted |-> t]

EmptyMirror ==
    [present |-> TRUE, modified |-> 1, thumbnail_timestamps |-> <<>>, thumbnail_votes |-> <<>>,
     thumbnails |-> <<>>, title_votes |-> <<>>, titles |-> <<>>,
     usernames |-> <<>>, vip_users |-> <<>>, sponsor_times |-> <<>>]

\* the rows titles.csv is made of: "u1" is the newer submission
TitleRowSet == {TitleRow("u1", "a", 2), TitleRow("u2", "a", 1), TitleRow("u2", "b", 1)}

\* the sequences of at most n rows of S with distinct UUIDs
RECURSIVE DistinctSeqs(_, _)
DistinctSeqs(S, n) ==
    IF n = 0 THEN {<<>>}
    ELSE LET shorter == DistinctSeqs(S, n - 1)
             more == {pr \in shorter \X S :
                        \A i \in 1..Len(pr[1]) : pr[1][i].uuid # pr[2].uuid}
         IN  shorter \cup {Append(pr[1], pr[2]) : pr \in more}

\* the contents of titles.csv: the rows in any order
TitleSeqs == DistinctSeqs(TitleRowSet, MaxRows)

\* the votes rows of the given title rows, in their order
VotesOf(rows) == [i \in 1..Len(rows) |-> TitleVotesRow(rows[i].uuid)]

Mirrors ==
    \* a table file is missing
    {[EmptyMirror EXCEPT !.present = FALSE]}
    \* titles whose votes rows are all there
    \cup {[EmptyMirror EXCEPT !.titles = ts, !.title_votes = VotesOf(ts)] :
            ts \in TitleSeqs}
    \* a title without its votes row
    \cup {[EmptyMirror EXCEPT !.titles = <<TitleRow("u1", "a", 2), TitleRow("u2", "a", 1)>>,
                              !.title_votes = <<TitleVotesRow("u1")>>,
                              !.modified = 2]}
    \* the other tables
    \cup {[EmptyMirror EXCEPT
              !.titles = <<TitleRow("u1", "a", 2)>>,
              !.title_votes = <<TitleVotesRow("u1")>>,
              !.thumbnails = <<ThumbnailRow("u3", "b", 1)>>,
              !.thumbnail_votes = <<ThumbnailVotesRow("u3")>>,
              !.usernames = <<[user_id |-> "p", username |-> "zz", locked |-> 0]>>,
              !.vip_users = <<[user_id |-> "p"]>>,
              !.sponsor_times = <<SponsorTimeRow("b", 0, 1, 2, 1)>>]}
    \* a hashedVideoID shorter than four bytes
    \cup {[EmptyMirror EXCEPT
              !.titles = <<[TitleRow("u1", "a", 2) EXCEPT !.hashed_video_id = <<"c", "a">>]>>,
              !.title_votes = <<TitleVotesRow("u1")>>]}

(***************************************************************************)
(* The server: the two RwLocks and what they guard, the reload requests    *)
(* and the read requests in flight.                                        *)
(***************************************************************************)
VARIABLES
    string_set,     \* RwLock<StringSet>: the live pool
    db,             \* DatabaseState.db
    errors,         \* DatabaseState.errors
    last_updated,   \* DatabaseState.last_updated
    last_modified,  \* DatabaseState.last_modified
    updating_now,   \* DatabaseState.updating_now
    ss_writer,      \* the holder of the StringSet write lock
    db_writer,      \* the holder of the DatabaseState write lock
    db_readers,     \* the holders of a DatabaseState read lock
    rl,             \* the reload requests, one per reloader
    rd,             \* the read requests, one per reader
    now,            \* the wall clock, Utc::now() in milliseconds
    loads,          \* do_reload calls started so far
    gen,            \* the reload each DatabaseState field was written by
    input,          \* the argument of a function applied on its own
    output          \* its result

server == <<string_set, db, errors, last_updated, last_modified, updating_now,
            ss_writer, db_writer, db_readers, rl, rd, now, loads, gen>>

vars == <<string_set, db, errors, last_updated, last_modified, updating_now,
          ss_writer, db_writer, db_readers, rl, rd, now, loads, gen,
          input, output>>

\* no function is being applied on its own
Nothing == [op |-> "none"]

EmptyDb ==
    [titles |-> <<>>, thumbnails |-> <<>>, usernames |-> EmptyMap,
     vip_users |-> {}, video_infos |-> {}]

IdleReload ==
    [pc |-> "idle", clone |-> {}, new_db |-> EmptyDb, new_errors |-> <<>>,
     last_updated |-> 0, last_modified |-> 0, result |-> "", status |-> 0,
     n |-> 0]

IdleRead ==
    [pc |-> "idle", x |-> "", id |-> NoHandle, titles |-> <<>>, status |-> 0,
     at_lookup |-> <<>>, at_scan |-> <<>>, holds_strings |-> FALSE]

QueryStrings == {"a", "p"}

\* the server after startup
Started ==
    /\ string_set = {}
    /\ db = EmptyDb
    /\ errors = <<>>
    /\ last_updated = 0
    /\ last_modified = 0
    /\ updating_now = FALSE
    /\ ss_writer = NoProc
    /\ db_writer = NoProc
    /\ db_readers = {}
    /\ rl = [p \in Reloaders |-> IdleReload]
    /\ rd = [r \in Readers |-> IdleRead]
    /\ now = 0
    /\ loads = 0
    /\ gen = [db |-> 0, errors |-> 0, last_updated |-> 0, last_modified |-> 0]

Init ==
    /\ Started
    /\ input = Nothing
    /\ output = Nothing

\* the handles a database holds
DbHandles(d) ==
    UNION {{d.titles[i].uuid, d.titles[i].title, d.titles[i].video_id,
            d.titles[i].user_id} : i \in 1..Len(d.titles)}
    \cup UNION {{d.thumbnails[i].uuid, d.thumbnails[i].video_id,
                 d.thumbnails[i].user_id} : i \in 1..Len(d.thumbnails)}
    \cup UNION {{d.usernames[u].user_id, d.usernames[u].username} :
                 u \in DOMAIN d.usernames}
    \cup d.vip_users
    \cup {v.video_id : v \in d.video_infos}

ErrorHandles(es) == {es[i].uuid : i \in 1..Len(es)}

\* the handles the requests in flight hold: the id a handler looked up and
\* the rows of its response
ReaderHandles ==
    UNION {({rd[r].id} \ {NoHandle})
           \cup UNION {{rd[r].titles[i].uuid, rd[r].titles[i].title,
                        rd[r].titles[i].video_id, rd[r].titles[i].user_id} :
                        i \in 1..Len(rd[r].titles)} : r \in Readers}

(***************************************************************************)
(* POST /reload: request_reload and do_reload.  What request_reload does   *)
(* with the value of spawn_blocking(..).await reads no shared state, so    *)
(* the step of do_reload that ends the worker also records the response.   *)
(***************************************************************************)
\* the status request_reload answers for what spawn_blocking(..).await gave:
\* Ok(..) for every return of do_reload, Err(JoinError) for a panic
ReloadStatus(result) == IF result = "panic" THEN 500 ELSE 200

\* request_reload up to spawn_blocking: auth is "none", "wrong" or "right"
RequestReload(p, auth) ==
    /\ rl[p].pc = "idle"
    /\ loads < MaxReloads
    /\ rl' = [rl EXCEPT ![p] =
                 CASE auth = "none"  -> [@ EXCEPT !.pc = "responded", !.status = 404]
                   [] auth = "wrong" -> [@ EXCEPT !.pc = "responded", !.status = 403]
                   [] OTHER          -> [@ EXCEPT !.pc = "check"]]
    /\ UNCHANGED <<string_set, db, errors, last_updated, last_modified,
                   updating_now, ss_writer, db_writer, db_readers, rd, now,
                   loads, gen,
                   input, output>>

\* whether the DatabaseState write lock can be taken
CanWriteDb == db_writer = NoProc /\ db_readers = {}

\* a guard that lets every request through
NeverUpdating == FALSE

\* whether do_reload gives up: a rebuild is running
AlreadyUpdating == updating_now

\* do_reload, the first critical section
DoReloadCheck(p) ==
    /\ rl[p].pc = "check"
    /\ CanWriteDb
    /\ IF AlreadyUpdating
       THEN /\ rl' = [rl EXCEPT ![p].pc = "responded", ![p].result = "already",
                                ![p].status = ReloadStatus("already")]
            /\ UNCHANGED <<updating_now, loads>>
       ELSE /\ loads < MaxReloads
            /\ updating_now' = TRUE
            /\ loads' = loads + 1
            /\ rl' = [rl EXCEPT ![p].pc = "load", ![p].n = loads + 1]
    /\ UNCHANGED <<string_set, db, errors, last_updated, last_modified,
                   ss_writer, db_writer, db_readers, rd, now, gen,
                   input, output>>

\* the reload request after load_dir returned r: the new state is kept for
\* the publish, or the error ends the worker
Loaded(req, r, time, mtime) ==
    IF r.result = "ok"
    THEN [req EXCEPT !.pc = "publish", !.clone = r.set, !.new_db = r.db,
                     !.new_errors = r.errors, !.last_updated = time,
                     !.last_modified = mtime]
    ELSE [req EXCEPT !.pc = "responded", !.result = r.result,
                     !.status = ReloadStatus(r.result)]

\* do_reload: the pool is cloned under its read lock and load_dir runs on the
\* clone; then the clock and the mtime of titles.csv are read.  Nothing but
\* a publish writes the pool, so the clone and the load are one step.
DoReloadLoad(p) ==
    /\ rl[p].pc = "load"
    /\ ss_writer = NoProc
    /\ \E m \in Mirrors :
         rl' = [rl EXCEPT ![p] = Loaded(@, Load(m, string_set, rl[p].n),
                                        now, m.modified)]
    /\ UNCHANGED <<string_set, db, errors, last_updated, last_modified,
                   updating_now, ss_writer, db_writer, db_readers, rd, now,
                   loads, gen,
                   input, output>>

\* whether the StringSet write lock can be taken
CanWriteStrings ==
    ss_writer = NoProc /\ \A r \in Readers : ~rd[r].holds_strings

\* do_reload: the StringSet write lock is taken first
PublishLockStrings(p) ==
    /\ rl[p].pc = "publish"
    /\ CanWriteStrings
    /\ ss_writer' = p
    /\ rl' = [rl EXCEPT ![p].pc = "lock_db"]
    /\ UNCHANGED <<string_set, db, errors, last_updated, last_modified,
                   updating_now, db_writer, db_readers, rd, now, loads, gen,
                   input, output>>

\* do_reload: then the DatabaseState write lock
PublishLockDb(p) ==
    /\ rl[p].pc = "lock_db"
    /\ CanWriteDb
    /\ db_writer' = p
    /\ rl' = [rl EXCEPT ![p].pc = "swap"]
    /\ UNCHANGED <<string_set, db, errors, last_updated, last_modified,
                   updating_now, ss_writer, db_readers, rd, now, loads, gen,
                   input, output>>

\* do_reload: the pool, the database and the error list are replaced
PublishSwap(p) ==
    /\ rl[p].pc = "swap"
    /\ string_set' = rl[p].clone
    /\ db' = rl[p].new_db
    /\ errors' = rl[p].new_errors
    /\ gen' = [gen EXCEPT !.db = rl[p].n, !.errors = rl[p].n]
    /\ rl' = [rl EXCEPT ![p].pc = "finish", ![p].clone = {},
                        ![p].new_db = EmptyDb, ![p].new_errors = <<>>]
    /\ UNCHANGED <<last_updated, last_modified, updating_now, ss_writer,
                   db_writer, db_readers, rd, now, loads,
                   input, output>>

\* do_reload: the times and the flag are written, the pool is pruned and
\* both locks are released
PublishFinish(p) ==
    /\ rl[p].pc = "finish"
    /\ last_updated' = rl[p].last_updated
    /\ last_modified' = rl[p].last_modified
    /\ updating_now' = FALSE
    /\ gen' = [gen EXCEPT !.last_updated = rl[p].n, !.last_modified = rl[p].n]
    /\ string_set' = Clean(string_set,
                           DbHandles(db) \cup ErrorHandles(errors) \cup ReaderHandles)
    /\ ss_writer' = NoProc
    /\ db_writer' = NoProc
    /\ rl' = [rl EXCEPT ![p].pc = "responded", ![p].result = "ok",
                        ![p].status = ReloadStatus("ok")]
    /\ UNCHANGED <<db, errors, db_readers, rd, now, loads,
                   input, output>>

\* the request is over; the client may send another
ReloadDone(p) ==
    /\ rl[p].pc = "responded"
    /\ rl' = [rl EXCEPT ![p] = IdleReload]
    /\ UNCHANGED <<string_set, db, errors, last_updated, last_modified,
                   updating_now, ss_writer, db_writer, db_readers, rd, now,
                   loads, gen,
                   input, output>>

\* the wall clock advances by a millisecond
Tick ==
    /\ now < MaxClock
    /\ now' = now + 1
    /\ UNCHANGED <<string_set, db, errors, last_updated, last_modified,
                   updating_now, ss_writer, db_writer, db_readers, rl, rd,
                   loads, gen,
                   input, output>>

(***************************************************************************)
(* The read handler GET /titles/video_id/{video_id}.                       *)
(***************************************************************************)
\* the filter of the by-user_id handler
ByUserPointer(titles, id) == SelectSeq(titles, LAMBDA t : t.user_id = id)

\* the rows whose video_id is the handle id: the Arc::ptr_eq filter
ByPointer(titles, id) == SelectSeq(titles, LAMBDA t : t.video_id = id)

\* the rows whose video_id bytes are x
ByContent(titles, x) == SelectSeq(titles, LAMBDA t : t.video_id.str = x)

\* sort_by time_submitted reversed: a stable sort, newest first
RECURSIVE SortNewestFirst(_)
SortNewestFirst(rows) ==
    IF Len(rows) <= 1 THEN rows
    ELSE LET rest == SortNewestFirst(Tail(rows))
             x == Head(rows)
             n == Cardinality({j \in 1..Len(rest) :
                                 rest[j].time_submitted > x.time_submitted})
         IN  SubSeq(rest, 1, n) \o <<x>> \o SubSeq(rest, n + 1, Len(rest))

\* a read lock that does not wait for the writer
ReadUnlocked == TRUE

\* whether a read lock of the DatabaseState can be taken
CanReadDb == db_writer = NoProc

\* a read guard of the StringSet bound to a variable of the handler
KeepsStringsGuard == FALSE

\* the read guard of the StringSet is a temporary of the lookup statement:
\* it is dropped before db_lock.read() is called
DropsStringsGuard == TRUE

\* get_titles_by_video_id: the path is looked up in the pool, under the
\* StringSet read lock, which is released at the end of the statement; a
\* miss answers at once
GetTitlesLookup(r, x) ==
    /\ rd[r].pc = "idle"
    /\ ss_writer = NoProc
    /\ LET id == PoolGet(string_set, x)
       IN  rd' = [rd EXCEPT ![r] =
                     IF id = NoHandle
                     THEN [@ EXCEPT !.pc = "done", !.x = x, !.status = 404,
                                    !.at_lookup = ByContent(db.titles, x)]
                     ELSE [@ EXCEPT !.pc = "wait_db", !.x = x, !.id = id,
                                    !.at_lookup = ByContent(db.titles, x),
                                    !.holds_strings = ~DropsStringsGuard]]
    /\ UNCHANGED <<string_set, db, errors, last_updated, last_modified,
                   updating_now, ss_writer, db_writer, db_readers, rl, now,
                   loads, gen,
                   input, output>>

\* db_lock.read()
ReaderLockDb(r) ==
    /\ rd[r].pc = "wait_db"
    /\ CanReadDb
    /\ db_readers' = db_readers \cup {r}
    /\ rd' = [rd EXCEPT ![r].pc = "scanning"]
    /\ UNCHANGED <<string_set, db, errors, last_updated, last_modified,
                   updating_now, ss_writer, db_writer, rl, now, loads, gen,
                   input, output>>

\* get_titles_by_video_id: the scan, the sort and the status
GetTitlesScan(r) ==
    /\ rd[r].pc = "scanning"
    /\ LET titles == SortNewestFirst(ByPointer(db.titles, rd[r].id))
       IN  rd' = [rd EXCEPT ![r].pc = "done",
                            ![r].titles = titles,
                            ![r].status = IF titles = <<>> THEN 404 ELSE 200,
                            ![r].at_scan = ByContent(db.titles, rd[r].x),
                            ![r].holds_strings = FALSE]
    /\ db_readers' = db_readers \ {r}
    /\ UNCHANGED <<string_set, db, errors, last_updated, last_modified,
                   updating_now, ss_writer, db_writer, rl, now, loads, gen,
                   input, output>>

\* the response is sent and dropped
ReadDone(r) ==
    /\ rd[r].pc = "done"
    /\ rd' = [rd EXCEPT ![r] = IdleRead]
    /\ UNCHANGED <<string_set, db, errors, last_updated, last_modified,
                   updating_now, ss_writer, db_writer, db_readers, rl, now,
                   loads, gen,
                   input, output>>

Next ==
    \/ \E p \in Reloaders, auth \in {"none", "wrong", "right"} : RequestReload(p, auth)
    \/ \E p \in Reloaders : DoReloadCheck(p)
    \/ \E p \in Reloaders : DoReloadLoad(p)
    \/ \E p \in Reloaders : PublishLockStrings(p)
    \/ \E p \in Reloaders : PublishLockDb(p)
    \/ \E p \in Reloaders : PublishSwap(p)
    \/ \E p \in Reloaders : PublishFinish(p)
    \/ \E p \in Reloaders : ReloadDone(p)
    \/ \E r \in Readers, x \in QueryStrings : GetTitlesLookup(r, x)
    \/ \E r \in Readers : ReaderLockDb(r)
    \/ \E r \in Readers : GetTitlesScan(r)
    \/ \E r \in Readers : ReadDone(r)
    \/ Tick

Spec == Init /\ [][Next]_vars

\* spawn_blocking runs every do_reload, and the runtime every handler, to
\* its end; a std RwLock is granted to a thread that keeps asking for it
Fairness ==
    /\ \A p \in Reloaders :
          /\ WF_vars(DoReloadCheck(p))
          /\ WF_vars(DoReloadLoad(p))
          /\ SF_vars(PublishLockStrings(p))
          /\ SF_vars(PublishLockDb(p))
          /\ WF_vars(PublishSwap(p))
          /\ WF_vars(PublishFinish(p))
          /\ WF_vars(ReloadDone(p))
    /\ \A r \in Readers :
          /\ SF_vars(ReaderLockDb(r))
          /\ WF_vars(GetTitlesScan(r))
          /\ WF_vars(ReadDone(r))

SpecLive == Init /\ [][Next]_vars /\ Fairness

(***************************************************************************)
(* The segment reducer on its own: one sponsorTimes.csv, every other table *)
(* empty, loaded into an empty pool.                                       *)
(***************************************************************************)
\* the sequences of at most n elements of S
RECURSIVE SeqsUpTo(_, _)
SeqsUpTo(S, n) ==
    IF n = 0 THEN {<<>>}
    ELSE LET shorter == SeqsUpTo(S, n - 1)
         IN  shorter \cup {Append(q, x) : q \in shorter, x \in S}

\* the rows of sponsorTimes.csv of video "a": segs are the (startTime,
\* endTime) pairs in file order, d the videoDuration column
SponsorRows(segs, d) ==
    [i \in 1..Len(segs) |-> SponsorTimeRow("a", segs[i][1], segs[i][2], d, i)]

SponsorFiles ==
    {SponsorRows(segs, d) :
        segs \in SeqsUpTo((0..MaxTime) \X (0..MaxTime), MaxSegs), d \in 0..MaxTime}

\* the ways a sponsorTimes row passes or fails the filter of
\* filter_and_split, and a passing row whose hashedVideoID is not the digest
RowCases == {"ok", "votes", "shadow_hidden", "hidden", "action_type", "hash"}

\* a row of video "a" that cuts (0, t): d its videoDuration, t its
\* timeSubmitted, category its category, c its case
DurationRow(d, t, category, c) ==
    [SponsorTimeRow("a", 0, t, d, t) EXCEPT
        !.category = category,
        !.votes = IF c = "votes" THEN -2 ELSE 0,
        !.shadow_hidden = IF c = "shadow_hidden" THEN 1 ELSE 0,
        !.hidden = IF c = "hidden" THEN 1 ELSE 0,
        !.action_type = IF c = "action_type" THEN "mute" ELSE "skip",
        !.hashed_video_id = IF c = "hash" THEN <<"0", "0", "0", "0", "0", "0">>
                            ELSE Hashed("a")]

DurationRows ==
    {DurationRow(d, t, category, c) :
        d \in 0..MaxDur, t \in 1..MaxDur, category \in {"sponsor", "outro"},
        c \in RowCases}

\* the files of one or two such rows
DurationFiles ==
    {<<x>> : x \in DurationRows} \cup {<<x, y>> : x, y \in DurationRows}

InitReducer ==
    /\ Started
    /\ input \in {[op |-> "load", sponsor_times |-> rows] :
                     rows \in SponsorFiles \cup DurationFiles}
    /\ output = Nothing

\* DearrowDB::load of the mirror
Reduce ==
    /\ input.op = "load"
    /\ output = Nothing
    /\ output' = [op |-> "load",
                  video_infos |->
                      Load([EmptyMirror EXCEPT !.sponsor_times = input.sponsor_times],
                           {}, 1).db.video_infos]
    /\ UNCHANGED <<server, input>>

NextReducer == Reduce

SpecReducer == InitReducer /\ [][NextReducer]_vars

(***************************************************************************)
(* The record merger on its own: mirrors whose titles and thumbnails rows  *)
(* vary in their flags, their hashedVideoID and the rows they join with,   *)
(* loaded into an empty pool.                                              *)
(***************************************************************************)
\* the UUID of the i-th row of a file
UuidOf == <<"u1", "u2", "u3", "u4">>

\* a hashedVideoID too short to slice
ShortHash == <<"c", "a">>

RECURSIVE Concat(_)
Concat(seqs) == IF seqs = <<>> THEN <<>> ELSE Head(seqs) \o Concat(Tail(seqs))

\* a titleVotes row of u, or none
TitleVotesCases(u) ==
    {<<>>} \cup
    {<<[TitleVotesRow(u) EXCEPT !.locked = c[1], !.shadow_hidden = c[2],
                               !.verification = c[3], !.removed = c[4]]>> :
        c \in {<<0, 0, 0, 0>>, <<2, 0, 0, 0>>, <<0, 0, -1, 0>>, <<0, 0, 1, 0>>}}

\* a titles row of u and the rows it joins with
TitleCases(u) ==
    {[row |-> [TitleRow(u, "a", 1) EXCEPT !.original = o, !.hashed_video_id = h],
      votes |-> vs, stamps |-> <<>>] :
        o \in {0, 2}, h \in {Hashed("a"), ShortHash}, vs \in TitleVotesCases(u)}

\* a thumbnails row of u and the rows it joins with
ThumbnailCases(u) ==
    {[row |-> [ThumbnailRow(u, "a", 1) EXCEPT !.original = o, !.hashed_video_id = h],
      votes |-> vs, stamps |-> ts] :
        o \in {0, 1, 2}, h \in {Hashed("a")},
        vs \in {<<>>, <<ThumbnailVotesRow(u)>>,
                <<[ThumbnailVotesRow(u) EXCEPT !.locked = 2]>>},
        ts \in {<<>>, <<[uuid |-> u, timestamp |-> 5]>>}}

\* files of exactly n title rows
RECURSIVE TitleCaseSeqs(_)
TitleCaseSeqs(n) ==
    IF n = 0 THEN {<<>>}
    ELSE {Append(q, c) : q \in TitleCaseSeqs(n - 1), c \in TitleCases(UuidOf[n])}

\* files of exactly n thumbnail rows
RECURSIVE ThumbnailCaseSeqs(_)
ThumbnailCaseSeqs(n) ==
    IF n = 0 THEN {<<>>}
    ELSE {Append(q, c) : q \in ThumbnailCaseSeqs(n - 1),
                         c \in ThumbnailCases(UuidOf[n])}

\* the rows, votes rows or timestamps rows of a sequence of cases
RowsOf(cs) == [i \in 1..Len(cs) |-> cs[i].row]
VotesRowsOf(cs) == Concat([i \in 1..Len(cs) |-> cs[i].votes])
StampsRowsOf(cs) == Concat([i \in 1..Len(cs) |-> cs[i].stamps])

\* hashedVideoID values: the digest of "a", the digest of "b", another
\* hexadecimal string, one with a sign, one that is not hexadecimal
HashedValues ==
    {Hashed("a"), Hashed("b"), <<"0", "0", "0", "0", "0", "0">>,
     <<"+", "c", "a", "9", "7", "8">>, <<"z", "z", "z", "z", "z", "z">>,
     ShortHash, <<>>}

\* a title, a thumbnail and a segment of video v, all with hashedVideoID h
PrefixMirror(v, h) ==
    [EmptyMirror EXCEPT
        !.titles = <<[TitleRow("u1", v, 1) EXCEPT !.hashed_video_id = h]>>,
        !.title_votes = <<TitleVotesRow("u1")>>,
        !.thumbnails = <<[ThumbnailRow("u2", v, 1) EXCEPT !.hashed_video_id = h]>>,
        !.thumbnail_votes = <<ThumbnailVotesRow("u2")>>,
        !.sponsor_times = <<[SponsorTimeRow(v, 0, 1, 2, 1) EXCEPT !.hashed_video_id = h]>>]

MergeMirrors ==
    {[EmptyMirror EXCEPT !.titles = RowsOf(cs), !.title_votes = VotesRowsOf(cs)] :
        cs \in UNION {TitleCaseSeqs(n) : n \in 1..MaxRows}}
    \cup {[EmptyMirror EXCEPT !.thumbnails = RowsOf(cs),
                              !.thumbnail_votes = VotesRowsOf(cs),
                              !.thumbnail_timestamps = StampsRowsOf(cs)] :
        cs \in UNION {ThumbnailCaseSeqs(n) : n \in 1..MaxRows}}
    \cup {PrefixMirror(v, h) : v \in {"a", "b"}, h \in HashedValues}

InitMerge ==
    /\ Started
    /\ input \in {[op |-> "merge", mirror |-> m] : m \in MergeMirrors}
    /\ output = Nothing

\* DearrowDB::load of the mirror
Merge ==
    /\ input.op = "merge"
    /\ output = Nothing
    /\ output' = Load(input.mirror, {}, 1)
    /\ UNCHANGED <<server, input>>

NextMerge == Merge

SpecMerge == InitMerge /\ [][NextMerge]_vars

(***************************************************************************)
(* SponsorBlockServer emulation: GET /api/branding and                     *)
(* GET /api/branding/{hash_prefix} over a loaded snapshot.  The request    *)
(* carries no If-None-Match header.  Alea::new(video_id).random() is not   *)
(* computed: the draw of each video id is part of the input, a multiple of *)
(* 1 / DrawUnit, and a random time is a fraction num / den.                *)
(***************************************************************************)
Int8Min == -128
Int8Max == 127

\* a subtraction that wraps around
wrapping_sub(a, b) == ((a - b - Int8Min) % (Int8Max - Int8Min + 1)) + Int8Min

\* i8::saturating_sub
saturating_sub(a, b) ==
    IF a - b < Int8Min THEN Int8Min
    ELSE IF a - b > Int8Max THEN Int8Max ELSE a - b

\* bool::into
BoolInt(b) == IF b THEN 1 ELSE 0

\* the characters of a title of the model
Chars(c) == IF c = "<<" THEN <<"<", "<">> ELSE <<c>>

\* str::replace('<', "lsaquo"), the guillemet written by its entity name
RECURSIVE Replace(_)
Replace(title) ==
    IF title = <<>> THEN <<>>
    ELSE <<IF Head(title) = "<" THEN "lsaquo" ELSE Head(title)>>
         \o Replace(Tail(title))

\* SBApiTitle::from_db
SBApiTitleFromDb(title, include_userid) ==
    [title |-> Replace(Chars(title.title.str)),
     original |-> "Original" \in title.flags,
     votes |-> saturating_sub(saturating_sub(title.votes, title.downvotes),
                              BoolInt("Unverified" \in title.flags)),
     locked |-> "Locked" \in title.flags,
     UUID |-> title.uuid,
     userID |-> IF include_userid THEN <<title.user_id>> ELSE <<>>]

\* SBApiThumbnail::from_db
SBApiThumbnailFromDb(thumb, include_userid) ==
    [timestamp |-> thumb.timestamp,
     original |-> "Original" \in thumb.flags,
     votes |-> saturating_sub(thumb.votes, thumb.downvotes),
     locked |-> "Locked" \in thumb.flags,
     UUID |-> thumb.uuid,
     userID |-> IF include_userid THEN <<thumb.user_id>> ELSE <<>>]

\* Ord::cmp as -1, 0, 1; Ordering::then; Ordering::reverse
Compare(x, y) == IF x < y THEN -1 ELSE IF x > y THEN 1 ELSE 0
Then(o1, o2) == IF o1 # 0 THEN o1 ELSE o2
Reverse(o) == 0 - o

\* the comparator of titles.sort_unstable_by
TitleOrder(a, b) ==
    Reverse(Then(Compare(BoolInt(a.locked), BoolInt(b.locked)),
                 Compare(a.votes, b.votes)))

\* the comparator of thumbs.sort_unstable_by
ThumbnailOrder(a, b) ==
    Reverse(Then(Compare(BoolInt(a.locked), BoolInt(b.locked)),
                 Then(Compare(a.votes, b.votes),
                      Reverse(Compare(BoolInt(a.original), BoolInt(b.original))))))

\* the arrangements of seq
Arrangements(seq) ==
    LET n == Len(seq)
        perms == {f \in [1..n -> 1..n] : \A i, j \in 1..n : i # j => f[i] # f[j]}
    IN  {[i \in 1..n |-> seq[f[i]]] : f \in perms}

\* titles.sort_unstable_by: any arrangement the comparator accepts, the
\* order of equal elements being unspecified
SortTitles(seq) ==
    {p \in Arrangements(seq) :
        \A i \in 1..(Len(p) - 1) : TitleOrder(p[i], p[i + 1]) <= 0}

\* thumbs.sort_unstable_by
SortThumbnails(seq) ==
    {p \in Arrangements(seq) :
        \A i \in 1..(Len(p) - 1) : ThumbnailOrder(p[i], p[i + 1]) <= 0}

\* the sum of the lengths of uncut segments
RECURSIVE SumLengths(_)
SumLengths(uncut) ==
    IF uncut = <<>> THEN 0 ELSE Head(uncut).length + SumLengths(Tail(uncut))

DrawUnit == 20

\* a draw that is not squashed
NoSquash(draw, has_outro) == draw

\* if !has_outro && random_time > 0.9 { random_time - 0.9 }
Squash(draw, has_outro) ==
    IF ~has_outro /\ draw * 10 > 9 * DrawUnit
    THEN draw - (9 * DrawUnit) \div 10 ELSE draw

\* the loop over uncut_segments; random_time counts 1 / (DrawUnit * unit)
RECURSIVE MapToUncut(_, _, _)
MapToUncut(uncut, i, random_time) ==
    IF i > Len(uncut) THEN random_time
    ELSE IF random_time <= uncut[i].length * DrawUnit
         THEN random_time + uncut[i].offset * DrawUnit
         ELSE MapToUncut(uncut, i + 1, random_time - uncut[i].length * DrawUnit)

\* the scaled draw, not mapped to the uncut segments
scaled_random_time(draw, video_info) ==
    IF video_info # <<>>
    THEN [num |-> Squash(draw, video_info[1].has_outro)
                      * SumLengths(video_info[1].uncut_segments),
          den |-> DrawUnit * video_info[1].unit]
    ELSE [num |-> Squash(draw, FALSE), den |-> DrawUnit]

\* get_random_time_for_video; video_info is <<>> or <<v>>
get_random_time_for_video(draw, video_info) ==
    IF video_info # <<>>
    THEN [num |-> MapToUncut(video_info[1].uncut_segments, 1,
                      Squash(draw, video_info[1].has_outro)
                          * SumLengths(video_info[1].uncut_segments)),
          den |-> DrawUnit * video_info[1].unit]
    ELSE [num |-> Squash(draw, FALSE), den |-> DrawUnit]

\* DearrowDB::get_video_info, <<>> or <<v>>
get_video_info(d, video_id) ==
    LET found == {v \in d.video_infos :
                     /\ v.bucket = compute_hashprefix(video_id.str)
                     /\ v.video_id = video_id}
    IN  IF found = {} THEN <<>> ELSE <<CHOOSE v \in found : TRUE>>

\* Option::map(|v| v.video_duration)
VideoDuration(video_info) ==
    IF video_info = <<>> THEN <<>> ELSE <<video_info[1].video_duration>>

unknown_video(draw) ==
    [titles |-> <<>>, thumbnails |-> <<>>,
     randomTime |-> get_random_time_for_video(draw, <<>>),
     videoDuration |-> <<>>]

\* the titles of get_video_branding before the sort
VideoTitles(d, video_id, q) ==
    LET kept == SelectSeq(d.titles, LAMBDA t :
                    /\ t.video_id = video_id
                    /\ t.votes > -1
                    /\ saturating_sub(t.votes, t.downvotes) > -2
                    /\ t.flags \cap {"Removed", "ShadowHidden"} = {})
        mapped == [i \in 1..Len(kept) |-> SBApiTitleFromDb(kept[i], q.returnUserID)]
    IN  SelectSeq(mapped, LAMBDA t : q.fetchAll \/ t.votes >= 0 \/ t.locked)

\* the thumbnails of get_video_branding before the sort
VideoThumbnails(d, video_id, q) ==
    LET kept == SelectSeq(d.thumbnails, LAMBDA t :
                    /\ t.video_id = video_id
                    /\ t.votes > -1
                    /\ saturating_sub(t.votes, t.downvotes) > -2
                    /\ t.flags \cap {"Removed", "ShadowHidden"} = {})
        mapped == [i \in 1..Len(kept) |->
                      SBApiThumbnailFromDb(kept[i], q.returnUserID)]
    IN  SelectSeq(mapped, LAMBDA t : q.fetchAll \/ t.votes >= 0 \/ t.locked)

\* u16::from_str_radix(path, 16) of a four-character path, -1 for Err
from_str_radix(path) ==
    IF \A n \in 1..4 : IsHex(path[n])
    THEN HexVal(path[1]) * 4096 + HexVal(path[2]) * 256
         + HexVal(path[3]) * 16 + HexVal(path[4])
    ELSE IF path[1] = "+" /\ \A n \in 2..4 : IsHex(path[n])
         THEN HexVal(path[2]) * 256 + HexVal(path[3]) * 16 + HexVal(path[4])
         ELSE -1

\* the titles get_chunk_branding lists under video v, in snapshot order
ChunkTitles(d, hash_prefix, q, v) ==
    LET kept == SelectSeq(d.titles, LAMBDA t :
                    /\ t.video_id.str = v
                    /\ t.hash_prefix = hash_prefix
                    /\ t.votes > -1
                    /\ t.flags \cap {"Removed", "ShadowHidden"} = {}
                    /\ saturating_sub(t.votes, t.downvotes) > -2
                    /\ \/ q.fetchAll
                       \/ "Locked" \in t.flags
                       \/ saturating_sub(t.votes, t.downvotes)
                             >= BoolInt("Unverified" \in t.flags))
    IN  [i \in 1..Len(kept) |-> SBApiTitleFromDb(kept[i], q.returnUserID)]

\* the thumbnails get_chunk_branding lists under video v, in snapshot order
ChunkThumbnails(d, hash_prefix, q, v) ==
    LET kept == SelectSeq(d.thumbnails, LAMBDA t :
                    /\ t.video_id.str = v
                    /\ t.hash_prefix = hash_prefix
                    /\ t.votes > -1
                    /\ t.flags \cap {"Removed", "ShadowHidden"} = {}
                    /\ saturating_sub(t.votes, t.downvotes)
                          >= (IF q.fetchAll \/ "Locked" \in t.flags THEN -1 ELSE 0))
    IN  [i \in 1..Len(kept) |-> SBApiThumbnailFromDb(kept[i], q.returnUserID)]

\* the keys of the videos map: the bucket's video infos and every video a
\* listed title or thumbnail belongs to
ChunkVideos(d, hash_prefix, q) ==
    {v.video_id.str : v \in {x \in d.video_infos : x.bucket = hash_prefix}}
    \cup {d.titles[i].video_id.str : i \in {j \in 1..Len(d.titles) :
              ChunkTitles(d, hash_prefix, q, d.titles[j].video_id.str) # <<>>}}
    \cup {d.thumbnails[i].video_id.str : i \in {j \in 1..Len(d.thumbnails) :
              ChunkThumbnails(d, hash_prefix, q, d.thumbnails[j].video_id.str) # <<>>}}

\* the Option<&VideoInfo> the videos map holds for key v
ChunkInfo(d, hash_prefix, v) ==
    LET found == {x \in d.video_infos : x.bucket = hash_prefix /\ x.video_id.str = v}
    IN  IF found = {} THEN <<>> ELSE <<CHOOSE x \in found : TRUE>>

MaxBrand == 3

\* votes and downvotes: the ends of the i8 range and the values around 0
VoteValues ==
    (Int8Min..(Int8Min + 2)) \cup (-3..3) \cup ((Int8Max - 2)..Int8Max)

\* one title of video "a" with the given votes and flag columns
FilterTitleMirrors ==
    {[EmptyMirror EXCEPT
         !.titles = <<TitleRow("u1", "a", 1)>>,
         !.title_votes = <<[TitleVotesRow("u1") EXCEPT
                               !.votes = v, !.downvotes = dv, !.locked = c[1],
                               !.shadow_hidden = c[2], !.verification = c[3],
                               !.removed = c[4]]>>] :
        v \in VoteValues, dv \in VoteValues,
        c \in {0, 1} \X {0, 1} \X {0, -1} \X {0, 1}}

\* one thumbnail of video "a" with the given votes and flag columns
FilterThumbnailMirrors ==
    {[EmptyMirror EXCEPT
         !.thumbnails = <<ThumbnailRow("u1", "a", 1)>>,
         !.thumbnail_votes = <<[ThumbnailVotesRow("u1") EXCEPT
                                   !.votes = v, !.downvotes = dv, !.locked = c[1],
                                   !.shadow_hidden = c[2], !.removed = c[3]]>>] :
        v \in VoteValues, dv \in VoteValues, c \in {0, 1} \X {0, 1} \X {0, 1}}

\* a title or a thumbnail of video "a" in row n, its votes row and its
\* timestamps row
TitleOrderCases(n) ==
    {[row |-> TitleRow(UuidOf[n], "a", n),
      votes |-> <<[TitleVotesRow(UuidOf[n]) EXCEPT !.votes = v, !.locked = l]>>,
      stamps |-> <<>>] : v \in {0, 1}, l \in {0, 1}}

ThumbnailOrderCases(n) ==
    {[row |-> [ThumbnailRow(UuidOf[n], "a", n) EXCEPT !.original = o],
      votes |-> <<[ThumbnailVotesRow(UuidOf[n]) EXCEPT !.votes = v, !.locked = l]>>,
      stamps |-> <<[uuid |-> UuidOf[n], timestamp |-> 5]>>] :
        v \in {0, 1}, l \in {0, 1}, o \in {0, 1}}

\* files of exactly n rows
RECURSIVE TitleOrderSeqs(_)
TitleOrderSeqs(n) ==
    IF n = 0 THEN {<<>>}
    ELSE {Append(q, c) : q \in TitleOrderSeqs(n - 1), c \in TitleOrderCases(n)}

RECURSIVE ThumbnailOrderSeqs(_)
ThumbnailOrderSeqs(n) ==
    IF n = 0 THEN {<<>>}
    ELSE {Append(q, c) : q \in ThumbnailOrderSeqs(n - 1),
                         c \in ThumbnailOrderCases(n)}

\* up to MaxBrand titles, or up to MaxBrand thumbnails, of video "a"
OrderMirrors ==
    {[EmptyMirror EXCEPT !.titles = RowsOf(cs), !.title_votes = VotesRowsOf(cs)] :
        cs \in UNION {TitleOrderSeqs(n) : n \in 1..MaxBrand}}
    \cup {[EmptyMirror EXCEPT !.thumbnails = RowsOf(cs),
                              !.thumbnail_votes = VotesRowsOf(cs),
                              !.thumbnail_timestamps = StampsRowsOf(cs)] :
        cs \in UNION {ThumbnailOrderSeqs(n) : n \in 1..MaxBrand}}

\* titles of two videos, one with two '<', a thumbnail and a segment
TwoVideosMirror ==
    [EmptyMirror EXCEPT
        !.titles = <<[TitleRow("u1", "a", 1) EXCEPT !.title = "<<"],
                     TitleRow("u2", "b", 2)>>,
        !.title_votes = <<TitleVotesRow("u1"), TitleVotesRow("u2")>>,
        !.thumbnails = <<ThumbnailRow("u3", "a", 1)>>,
        !.thumbnail_votes = <<ThumbnailVotesRow("u3")>>,
        !.sponsor_times = <<SponsorTimeRow("a", 0, 1, 2, 1)>>]

MaxCut == 2

\* the segments a video may have: startTime before endTime, up to MaxCut
CutPairs == {pr \in (0..MaxCut) \X (0..MaxCut) : pr[1] < pr[2]}

\* the segments of video "a", of positive duration, with or without outro
SegmentMirrors ==
    {[EmptyMirror EXCEPT !.sponsor_times =
         [i \in 1..Len(segs) |->
             [SponsorTimeRow("a", segs[i][1], segs[i][2], d, i) EXCEPT
                 !.category = IF i = 1 THEN c ELSE "sponsor"]]] :
        segs \in SeqsUpTo(CutPairs, MaxSegs) \ {<<>>},
        d \in 1..(MaxCut + 1), c \in {"sponsor", "outro"}}

\* the draws of the PRNG, in units of 1 / DrawUnit
Draws == {0, 1, DrawUnit \div 2, (9 * DrawUnit) \div 10, DrawUnit - 1}

Alea(n) == [v \in {"a", "b", "c", "p"} |-> IF v = "a" THEN n ELSE 0]

Endpoints == {"video", "chunk"}

\* a request for video "a" or for the bucket of "a"
Query == [videoID |-> "a", path |-> <<"c", "a", "9", "7">>, service |-> "none",
          returnUserID |-> FALSE, fetchAll |-> FALSE]

\* the paths and the service parameters of the requests
Paths == {<<"c", "a", "9", "7">>, <<"3", "e", "2", "3">>, <<"c", "a">>,
          <<"z", "z", "z", "z">>}

\* a request to endpoint op of a server whose last load returned loaded
Serve(op, loaded, alea, query) ==
    [op |-> op, set |-> loaded.set, db |-> loaded.db, alea |-> alea,
     query |-> query]

BrandingRequests ==
    {Serve(op, Load(m, {}, 1), Alea(0), [Query EXCEPT !.fetchAll = f]) :
        op \in Endpoints, f \in BOOLEAN,
        m \in FilterTitleMirrors \cup FilterThumbnailMirrors \cup OrderMirrors}
    \cup {Serve("video", Load(TwoVideosMirror, {}, 1), Alea(0),
                [Query EXCEPT !.videoID = v, !.service = sv, !.returnUserID = u]) :
        v \in {"a", "b", "c", "p"}, sv \in {"none", "YouTube", "other"},
        u \in BOOLEAN}
    \cup {Serve("chunk", Load(TwoVideosMirror, {}, 1), Alea(0),
                [Query EXCEPT !.path = pa, !.service = sv, !.returnUserID = u]) :
        pa \in Paths, sv \in {"none", "YouTube", "other"}, u \in BOOLEAN}
    \cup {Serve(op, Load(m, {}, 1), Alea(n), Query) :
        op \in Endpoints, m \in SegmentMirrors, n \in Draws}

InitBranding ==
    /\ Started
    /\ input \in BrandingRequests
    /\ output = Nothing

\* get_video_branding: the responses to request req, one for every order
\* the unstable sorts may leave equal elements in
VideoBranding(req) ==
    LET q == req.query
        video_id == PoolGet(req.set, q.videoID)
        video_info == get_video_info(req.db, video_id)
    IN  IF q.service \notin {"none", "YouTube"} \/ video_id = NoHandle
        THEN {[status |-> 404, body |-> unknown_video(req.alea[q.videoID])]}
        ELSE {[status |-> 200,
               body |-> [titles |-> titles,
                         thumbnails |-> thumbs,
                         randomTime |-> get_random_time_for_video(
                             req.alea[q.videoID], video_info),
                         videoDuration |-> VideoDuration(video_info)]] :
                 titles \in SortTitles(VideoTitles(req.db, video_id, q)),
                 thumbs \in SortThumbnails(VideoThumbnails(req.db, video_id, q))}

\* GET /api/branding
GetVideoBranding ==
    /\ input.op = "video"
    /\ output = Nothing
    /\ output' \in VideoBranding(input)
    /\ UNCHANGED <<server, input>>

\* GET /api/branding/{hash_prefix}
GetChunkBranding ==
    /\ input.op = "chunk"
    /\ output = Nothing
    /\ LET q == input.query
           hash_prefix == from_str_radix(q.path)
       IN  output' =
               IF q.service \notin {"none", "YouTube"}
               THEN [status |-> 404, body |-> << >>]
               ELSE IF Len(q.path) # 4 \/ hash_prefix = -1
               THEN [status |-> 400, body |-> << >>]
               ELSE [status |-> 200,
                     body |-> [v \in ChunkVideos(input.db, hash_prefix, q) |->
                         [titles |-> ChunkTitles(input.db, hash_prefix, q, v),
                          thumbnails |-> ChunkThumbnails(input.db, hash_prefix, q, v),
                          randomTime |-> get_random_time_for_video(
                              input.alea[v], ChunkInfo(input.db, hash_prefix, v)),
                          videoDuration |->
                              VideoDuration(ChunkInfo(input.db, hash_prefix, v))]]]
    /\ UNCHANGED <<server, input>>

NextBranding == GetVideoBranding \/ GetChunkBranding

SpecBranding == InitBranding /\ [][NextBranding]_vars

(***************************************************************************)
(* The title rendering of SBApiTitle::from_db on its own, over every title *)
(* of at most MaxTitle characters.                                         *)
(***************************************************************************)
MaxTitle == 4

InitRender ==
    /\ Started
    /\ input \in {[op |-> "render", title |-> t] :
                     t \in SeqsUpTo({"<", "a", "lsaquo"}, MaxTitle)}
    /\ output = Nothing

\* title.title.replace('<', "lsaquo")
Render ==
    /\ input.op = "render"
    /\ output = Nothing
    /\ output' = [op |-> "render", title |-> Replace(input.title)]
    /\ UNCHANGED <<server, input>>

NextRender == Render

SpecRender == InitRender /\ [][NextRender]_vars

(***************************************************************************)
(* The browser API's title of a database row,                              *)
(* parse_api_title_from_database_row, on its own.  A row is the record of  *)
(* the columns the query selects.                                          *)
(***************************************************************************)
Int32Max == 2147483647
Int32Min == (0 - Int32Max) - 1

\* an addition that returns its first operand
I32AddFirst(a, b) == {[kind |-> "ok", value |-> a]}

\* i32 + i32: the sum, or on overflow a panic (overflow checks on) or the
\* wrapped sum (overflow checks off)
I32Add(a, b) ==
    IF b > 0 /\ a > Int32Max - b
    THEN {[kind |-> "panic"],
          [kind |-> "ok", value |-> ((a - Int32Max) - 1) + (b + Int32Min)]}
    ELSE IF b < 0 /\ a < Int32Min - b
    THEN {[kind |-> "panic"],
          [kind |-> "ok", value |-> ((a + Int32Max) + 1) + ((b + Int32Max) + 1)]}
    ELSE {[kind |-> "ok", value |-> a + b]}

\* the rows a titles query returns
ApiRows ==
    {[uuid |-> "u1", video_id |-> "a", title |-> "a", user_id |-> "p",
      time_submitted |-> 1, votes |-> v, original |-> c[1], locked |-> c[2],
      shadow_hidden |-> c[3], verification |-> ver, username |-> <<>>,
      vip |-> <<>>] :
        v \in {Int32Min, Int32Min + 1, Int32Max - 1, Int32Max} \cup (-2..2),
        ver \in {-1, 0, 1}, c \in {0, 1} \X {0, 1} \X {0, 1}}

InitApiTitle ==
    /\ Started
    /\ input \in {[op |-> "row", row |-> r] : r \in ApiRows}
    /\ output = Nothing

\* parse_api_title_from_database_row
ParseApiTitle ==
    /\ input.op = "row"
    /\ output = Nothing
    /\ \E sum \in I32Add(input.row.votes, input.row.verification) :
          output' =
              IF sum.kind = "panic" THEN [op |-> "row", result |-> "panic"]
              ELSE [op |-> "row", result |-> "ok",
                    title |-> [uuid |-> input.row.uuid,
                               video_id |-> input.row.video_id,
                               title |-> input.row.title,
                               user_id |-> input.row.user_id,
                               time_submitted |-> input.row.time_submitted,
                               votes |-> input.row.votes,
                               original |-> input.row.original # 0,
                               locked |-> input.row.locked # 0,
                               shadow_hidden |-> input.row.shadow_hidden # 0,
                               unverified |-> input.row.verification # 0,
                               score |-> sum.value,
                               username |-> input.row.username,
                               vip |-> input.row.vip # <<>>]]
    /\ UNCHANGED <<server, input>>

NextApiTitle == ParseApiTitle

SpecApiTitle == InitApiTitle /\ [][NextApiTitle]_vars

(***************************************************************************)
(* Properties.                                                             *)
(***************************************************************************)
\* a reload request between its first critical section and its last
Rebuilding(p) == rl[p].pc \in {"load", "publish", "lock_db", "swap", "finish"}

\* the rows of a sequence
Rows(seq) == {seq[i] : i \in 1..Len(seq)}

\* two sequences of rows hold the same rows
SameRows(s1, s2) == Len(s1) = Len(s2) /\ Rows(s1) = Rows(s2)

Ascending(seq) ==
    \A i, j \in 1..Len(seq) : i < j => seq[i].time_submitted <= seq[j].time_submitted

Descending(seq) ==
    \A i, j \in 1..Len(seq) : i < j => seq[i].time_submitted >= seq[j].time_submitted

\* every handle in use: the live pool, the live database and error list, the
\* requests in flight and what a reload has built but not yet published
HandlesInUse ==
    string_set \cup DbHandles(db) \cup ErrorHandles(errors) \cup ReaderHandles
    \cup UNION {rl[p].clone \cup DbHandles(rl[p].new_db)
                \cup ErrorHandles(rl[p].new_errors) : p \in Reloaders}

\* C1: at most one rebuild is in progress at any time, and a do_reload that
\* finds updating_now true returns "Already updating!" in that very step,
\* leaving the snapshot, the pool, the error list, last_updated,
\* last_modified and updating_now as they were.
C1_OneRebuildAtATime ==
    [][/\ \A p, q \in Reloaders : (Rebuilding(p) /\ Rebuilding(q))' => p = q
       /\ \A p \in Reloaders :
             (rl[p].pc = "check" /\ updating_now /\ rl'[p] # rl[p]) =>
                 /\ rl'[p].pc = "responded"
                 /\ rl'[p].result = "already"
                 /\ UNCHANGED <<string_set, db, errors, last_updated,
                                last_modified, updating_now>>]_vars

\* a request was turned away while the other one rebuilds
C1_Witness ==
    \E p, q \in Reloaders :
        p # q /\ Rebuilding(q) /\ rl[p].pc = "responded" /\ rl[p].result = "already"

\* C2: when load_dir fails fatally, do_reload returns with the snapshot, the
\* pool, the error list, last_updated and last_modified untouched and with
\* updating_now back at the value it had before the request, false.
C2_FatalErrorRestoresState ==
    [][\A p \in Reloaders :
          (rl[p].pc = "load" /\ rl'[p].result = "fatal") =>
              /\ UNCHANGED <<string_set, db, errors, last_updated, last_modified>>
              /\ updating_now' = FALSE]_vars

\* C3: POST /reload with the right secret answers 200 only when do_reload
\* published a new snapshot, and 500 whenever do_reload returned an error.
C3_StatusTellsOutcome ==
    \A p \in Reloaders :
        (rl[p].pc = "responded" /\ rl[p].result # "") =>
            /\ rl[p].status = 200 <=> rl[p].result = "ok"
            /\ rl[p].result # "ok" => rl[p].status = 500

\* C4: whenever a reader holds the DatabaseState read lock, db, errors,
\* last_updated and last_modified were all written by the same completed
\* reload, or all are the initial ones.
C4_PublicationAtomic ==
    db_readers # {} =>
        /\ gen.db = gen.errors
        /\ gen.errors = gen.last_updated
        /\ gen.last_updated = gen.last_modified

\* a reader holds the lock on a published snapshot while a reload waits to
\* publish the next one
C4_Witness ==
    /\ db_readers # {}
    /\ gen.db >= 1
    /\ \E p \in Reloaders : rl[p].pc = "lock_db"

\* C5: the response of a by-video_id request is the answer of the pair
\* (pool, snapshot) that was live when the request looked its id up, even
\* when a reload publishes before the scan.
C5_RequestSeesFirstPair ==
    \A r \in Readers :
        rd[r].pc = "done" => SameRows(rd[r].titles, rd[r].at_lookup)

\* C6: a successful reload that follows a successful reload publishes a
\* strictly larger last_updated.
C6_LastUpdatedStrictlyIncreases ==
    [][\A p \in Reloaders :
          (rl[p].pc = "finish" /\ rl'[p].pc = "responded" /\ gen.last_updated >= 1)
              => last_updated' > last_updated]_vars

\* C7: among the handles that went through the pool, two are the same
\* allocation if and only if their contents are equal, and neither the live
\* pool nor a reload's clone holds two entries with equal content.
C7_InterningContract ==
    \A h1, h2 \in HandlesInUse : h1 = h2 <=> h1.str = h2.str

\* two rows read by different reloads, and two fields of one row, share one
\* allocation
C7_Witness ==
    /\ gen.db = 2
    /\ \E i \in 1..Len(db.titles) :
          /\ db.titles[i].title = db.titles[i].video_id
          /\ db.titles[i].video_id.id[1] = 1

\* C8: every handle a row of the live snapshot holds is the entry the live
\* pool stores for its content, and the prune at the end of a publish
\* removes the entries nothing but the pool holds and no others.
C8_SnapshotHandlesArePoolEntries ==
    [][/\ (\A h \in DbHandles(db) : PoolGet(string_set, h.str) = h)'
       /\ \A p \in Reloaders :
             (rl[p].pc = "finish" /\ rl'[p].pc = "responded") =>
                 /\ string_set' \subseteq string_set
                 /\ \A s \in string_set :
                       s \in string_set' <=>
                           s \in (DbHandles(db) \cup ErrorHandles(errors)
                                   \cup ReaderHandles)']_vars

\* after the second publish the snapshot still holds a handle of the first
\* load, and the prune dropped the strings of the first snapshot only
C8_Witness ==
    /\ gen.last_updated = 2
    /\ \E h \in DbHandles(db) : h.id[1] = 1
    /\ \E h \in DbHandles(db) : h.id[1] = 2
    /\ \A s \in string_set : s.str # "u2"

\* C9: GET /titles/video_id/X answers with exactly the rows of the snapshot
\* whose video_id has the content X, newest first, and with 404 exactly
\* when there are none.  The snapshot is the one scanned, or for an X the
\* pool does not hold the one live at the lookup.
C9_TitlesByVideoId ==
    \A r \in Readers :
        rd[r].pc = "done" =>
            LET expected == IF rd[r].id = NoHandle THEN rd[r].at_lookup
                            ELSE rd[r].at_scan
            IN  /\ SameRows(rd[r].titles, expected)
                /\ Descending(rd[r].titles)
                /\ rd[r].status = (IF expected = <<>> THEN 404 ELSE 200)

\* two titles of one video, answered in the reverse of the snapshot's order
C9_Witness ==
    \E r \in Readers :
        /\ rd[r].pc = "done"
        /\ rd[r].status = 200
        /\ Len(rd[r].titles) = 2
        /\ rd[r].titles # rd[r].at_scan

\* C10: after every successful reload the titles and the thumbnails of the
\* published snapshot are in ascending order of time_submitted.
C10_PublishedSnapshotSorted ==
    gen.db >= 1 => Ascending(db.titles) /\ Ascending(db.thumbnails)

\* sorted by offset, pairwise disjoint, each within [0, 1], lengths summing
\* to at most 1; an offset or length x stands for x / unit
UncutInvariant(uncut, unit) ==
    /\ \A i, j \in 1..Len(uncut) :
          i < j => /\ uncut[i].offset <= uncut[j].offset
                   /\ uncut[i].offset + uncut[i].length <= uncut[j].offset
    /\ \A i \in 1..Len(uncut) :
          /\ uncut[i].offset >= 0
          /\ uncut[i].length >= 0
          /\ uncut[i].offset + uncut[i].length <= unit
    /\ SumLengths(uncut) <= unit

\* C11: the uncut_segments of every VideoInfo a load produces, from any
\* contributing sponsorTimes rows, are sorted by offset, pairwise disjoint,
\* within [0, 1] and of total length at most 1.
C11_UncutSegmentsInvariant ==
    output # Nothing =>
        \A v \in output.video_infos : UncutInvariant(v.uncut_segments, v.unit)

\* C12: a video one of whose contributing segments is (0, D), D its
\* duration, is entirely cut: its uncut_segments list is empty, whatever
\* other segments it has.
C12_WholeVideoCut ==
    output # Nothing =>
        \A v \in output.video_infos :
            (/\ v.unit > 0
             /\ \E i \in 1..Len(input.sponsor_times) :
                   /\ input.sponsor_times[i].start_time = 0
                   /\ input.sponsor_times[i].end_time = v.unit)
                => v.uncut_segments = <<>>

\* the rows of input file f whose UUID is u
InputRows(f, u) ==
    {i \in 1..Len(input.mirror[f]) : input.mirror[f][i].uuid = u}

\* C13: a thumbnail of a snapshot has a timestamp if and only if it is not
\* Original.
C13_TimestampIffNotOriginal ==
    (output # Nothing /\ output.result = "ok") =>
        \A i \in 1..Len(output.db.thumbnails) :
            output.db.thumbnails[i].timestamp # <<>>
                <=> "Original" \notin output.db.thumbnails[i].flags

\* C13 as amended: a thumbnail that is not Original has a timestamp, a row
\* that is not Original and has no thumbnailTimestamps row is rejected with
\* MissingSubobject, and any thumbnail has a timestamp exactly when the
\* thumbnailTimestamps file has a row of its UUID.
C13_NonOriginalHasTimestamp ==
    (output # Nothing /\ output.result = "ok") =>
        /\ \A i \in 1..Len(output.db.thumbnails) :
              LET t == output.db.thumbnails[i]
              IN  /\ "Original" \notin t.flags => t.timestamp # <<>>
                  /\ t.timestamp # <<>>
                        <=> InputRows("thumbnail_timestamps", t.uuid.str) # {}
        /\ \A i \in 1..Len(input.mirror.thumbnails) :
              LET row == input.mirror.thumbnails[i]
              IN  (/\ row.original = 0
                   /\ InputRows("thumbnail_timestamps", row.uuid) = {}
                   /\ \E j \in InputRows("thumbnail_votes", row.uuid) :
                         input.mirror.thumbnail_votes[j].locked = 0)
                  => \E k \in 1..Len(output.errors) :
                        /\ output.errors[k].uuid.str = row.uuid
                        /\ output.errors[k].error = "MissingSubobject"
                        /\ output.errors[k].field = "ThumbnailTimestamps"

\* one row was rejected for its missing timestamp, another merged with one
C13_Witness ==
    /\ output # Nothing
    /\ output.result = "ok"
    /\ \E i \in 1..Len(output.db.thumbnails) :
          /\ "Original" \notin output.db.thumbnails[i].flags
          /\ output.db.thumbnails[i].timestamp = <<5>>
    /\ \E k \in 1..Len(output.errors) :
          /\ output.errors[k].error = "MissingSubobject"
          /\ output.errors[k].field = "ThumbnailTimestamps"

\* C14: the hash prefix stored with every title and thumbnail, and the
\* bucket of every video info, is the first 16 bits of SHA-256 of the video
\* id, whatever the hashedVideoID field of the row holds.
C14_HashPrefixIsDigestPrefix ==
    (output # Nothing /\ output.result = "ok") =>
        /\ \A i \in 1..Len(output.db.titles) :
              output.db.titles[i].hash_prefix
                  = compute_hashprefix(output.db.titles[i].video_id.str)
        /\ \A i \in 1..Len(output.db.thumbnails) :
              output.db.thumbnails[i].hash_prefix
                  = compute_hashprefix(output.db.thumbnails[i].video_id.str)
        /\ \A v \in output.db.video_infos :
              v.bucket = compute_hashprefix(v.video_id.str)

\* the records of seq whose UUID is u, and the errors of kind object about u
Merged(seq, u) == {i \in 1..Len(seq) : seq[i].uuid.str = u}
Rejected(object, u) ==
    {k \in 1..Len(output.errors) :
        output.errors[k].object = object /\ output.errors[k].uuid.str = u}

\* row i of file f became exactly one record of seq or exactly one error
ExactlyOneOutcome(f, votes, object, seq, i) ==
    LET u == input.mirror[f][i].uuid
    IN  /\ Cardinality(Merged(seq, u)) + Cardinality(Rejected(object, u)) = 1
        /\ InputRows(votes, u) = {}
              => \E k \in Rejected(object, u) :
                    output.errors[k].error = "MissingSubobject"

\* C15: the load of a mirror succeeds whatever its titles and thumbnails
\* rows hold, each such row ends as exactly one merged record or exactly one
\* entry of the error list, and a row without votes row gives
\* MissingSubobject.
C15_RowMergedOrRejected ==
    output # Nothing =>
        /\ output.result = "ok"
        /\ \A i \in 1..Len(input.mirror.titles) :
              ExactlyOneOutcome("titles", "title_votes", "Title",
                                output.db.titles, i)
        /\ \A i \in 1..Len(input.mirror.thumbnails) :
              ExactlyOneOutcome("thumbnails", "thumbnail_votes", "Thumbnail",
                                output.db.thumbnails, i)

\* the branding objects of a response, and the UUIDs it lists under f
BrandingObjects ==
    IF input.op = "video" THEN {output.body}
    ELSE {output.body[v] : v \in DOMAIN output.body}

ListedUuids(f) ==
    UNION {{o[f][i].UUID : i \in 1..Len(o[f])} : o \in BrandingObjects}

\* the record belongs to the video or to the bucket the request names
Requested(t) ==
    IF input.op = "video"
    THEN t.video_id = PoolGet(input.set, input.query.videoID)
    ELSE t.hash_prefix = from_str_radix(input.query.path)

TitleVisible(t, fetchAll) ==
    /\ t.votes > -1
    /\ t.votes - t.downvotes > -2
    /\ "Removed" \notin t.flags
    /\ "ShadowHidden" \notin t.flags
    /\ \/ fetchAll
       \/ "Locked" \in t.flags
       \/ t.votes - t.downvotes >= (IF "Unverified" \in t.flags THEN 1 ELSE 0)

ThumbnailVisible(t, fetchAll) ==
    /\ t.votes > -1
    /\ t.votes - t.downvotes > -2
    /\ "Removed" \notin t.flags
    /\ "ShadowHidden" \notin t.flags
    /\ (fetchAll \/ "Locked" \in t.flags \/ t.votes - t.downvotes >= 0)

\* C16: a branding response lists a title of the requested video or bucket
\* if and only if votes > -1, votes - downvotes > -2, it is neither Removed
\* nor ShadowHidden, and fetchAll is set or it is Locked or votes - downvotes
\* is at least 1 (Unverified) or 0; a thumbnail likewise with 0.
C16_VisibilityFilter ==
    (output # Nothing /\ output.status = 200) =>
        /\ \A i \in 1..Len(input.db.titles) :
              Requested(input.db.titles[i]) =>
                  (input.db.titles[i].uuid \in ListedUuids("titles")
                      <=> TitleVisible(input.db.titles[i], input.query.fetchAll))
        /\ \A i \in 1..Len(input.db.thumbnails) :
              Requested(input.db.thumbnails[i]) =>
                  (input.db.thumbnails[i].uuid \in ListedUuids("thumbnails")
                      <=> ThumbnailVisible(input.db.thumbnails[i],
                                           input.query.fetchAll))

\* a title whose votes - downvotes exceeds the i8 range is listed without
\* fetchAll
C16_Witness ==
    /\ output # Nothing
    /\ output.status = 200
    /\ ~input.query.fetchAll
    /\ \E i \in 1..Len(input.db.titles) :
          /\ input.db.titles[i].votes = Int8Max
          /\ input.db.titles[i].downvotes = Int8Min
          /\ "Locked" \notin input.db.titles[i].flags
          /\ input.db.titles[i].uuid \in ListedUuids("titles")

\* the keys the orderings compare
TitleKey(t) == <<BoolInt(t.locked), t.votes>>
ThumbnailKey(t) == <<BoolInt(t.locked), t.votes, BoolInt(~t.original)>>

\* key k comes before key l, or equals it, in descending lexicographic order
RECURSIVE Descends(_, _)
Descends(k, l) ==
    \/ k = <<>>
    \/ Head(k) > Head(l)
    \/ Head(k) = Head(l) /\ Descends(Tail(k), Tail(l))

\* C17: in every branding object of a response the titles are in descending
\* order of (locked, votes) and the thumbnails in descending order of
\* (locked, votes, not original).
C17_BrandingOrder ==
    (output # Nothing /\ output.status = 200) =>
        \A o \in BrandingObjects :
            /\ \A i, j \in 1..Len(o.titles) :
                  i < j => Descends(TitleKey(o.titles[i]), TitleKey(o.titles[j]))
            /\ \A i, j \in 1..Len(o.thumbnails) :
                  i < j => Descends(ThumbnailKey(o.thumbnails[i]),
                                    ThumbnailKey(o.thumbnails[j]))

\* the video infos the response knows, each with the random time it reports
ObjectOf(v) ==
    IF input.op = "video" THEN output.body ELSE output.body[v.video_id.str]

KnownTimes ==
    {<<v, ObjectOf(v).randomTime>> :
        v \in {x \in input.db.video_infos :
                  /\ IF input.op = "video"
                     THEN x.video_id.str = input.query.videoID
                     ELSE x.video_id.str \in DOMAIN output.body
                  /\ ObjectOf(x).videoDuration # <<>>}}

\* the draw of v after the outro squash, in units of 1 / DrawUnit
Drawn(v) ==
    LET n == input.alea[v.video_id.str]
    IN  IF ~v.has_outro /\ n * 10 > 9 * DrawUnit
        THEN n - (9 * DrawUnit) \div 10 ELSE n

\* the draw scaled by the sum of the uncut lengths, and what of it is left
\* at uncut segment j, in units of 1 / (DrawUnit * unit)
Scaled(v) == Drawn(v) * SumLengths(v.uncut_segments)
LeftAt(v, j) ==
    Scaled(v) - SumLengths(SubSeq(v.uncut_segments, 1, j - 1)) * DrawUnit

\* the uncut segments that contain the scaled draw: the first one it does
\* not reach beyond
Containing(v) ==
    {j \in 1..Len(v.uncut_segments) :
        /\ LeftAt(v, j) <= v.uncut_segments[j].length * DrawUnit
        /\ \A i \in 1..(j - 1) :
              LeftAt(v, i) > v.uncut_segments[i].length * DrawUnit}

\* the position in the video the draw maps to, as a fraction of the video
\* in units of 1 / (DrawUnit * unit)
MappedFraction(v) ==
    IF Containing(v) = {} THEN LeftAt(v, Len(v.uncut_segments) + 1)
    ELSE LET j == CHOOSE x \in Containing(v) : TRUE
         IN  LeftAt(v, j) + v.uncut_segments[j].offset * DrawUnit

\* C18: the random time of a video with a known VideoInfo is the mapped
\* position in seconds: the squashed draw scaled by the uncut length times
\* video_duration, plus the containing segment's offset times
\* video_duration.
C18_RandomTimeInSeconds ==
    (output # Nothing /\ output.status = 200) =>
        \A k \in KnownTimes :
            k[2].num * DrawUnit * k[1].unit
                = MappedFraction(k[1]) * k[1].video_duration * k[2].den

\* C18 as amended: the random time is the mapped position as a fraction of
\* the video: the squashed draw scaled by the sum of the uncut lengths,
\* less the lengths of the uncut segments before the containing one, plus
\* that segment's offset, nothing being multiplied by video_duration.
C18_RandomTimeIsFraction ==
    (output # Nothing /\ output.status = 200) =>
        \A k \in KnownTimes :
            k[2].num * DrawUnit * k[1].unit = MappedFraction(k[1]) * k[2].den

\* a video longer than one second whose draw lands in its second uncut
\* segment
C18_Witness ==
    /\ output # Nothing
    /\ output.status = 200
    /\ \E k \in KnownTimes :
          /\ k[1].video_duration > 1
          /\ Containing(k[1]) # {}
          /\ 1 \notin Containing(k[1])
          /\ k[2].num > 0

\* the positions of '<' in a title
LtAt(title) == {i \in 1..Len(title) : title[i] = "<"}

\* C20: the rendered title has the first '<' of the title replaced by the
\* guillemet and every other character, the further '<' included,
\* unchanged.
C20_OnlyFirstReplaced ==
    (output # Nothing /\ LtAt(input.title) # {}) =>
        /\ Len(output.title) = Len(input.title)
        /\ \A i \in 1..Len(input.title) :
              output.title[i] =
                  IF i \in LtAt(input.title) /\ \A j \in LtAt(input.title) : i <= j
                  THEN "lsaquo" ELSE input.title[i]

KnownVideo(c) ==
    \/ \E i \in 1..Len(input.db.titles) : input.db.titles[i].video_id.str = c
    \/ \E i \in 1..Len(input.db.thumbnails) :
          input.db.thumbnails[i].video_id.str = c
    \/ \E v \in input.db.video_infos : v.video_id.str = c

\* C21: GET /api/branding answers 404, with no titles, no thumbnails and no
\* videoDuration, when the service is not "YouTube" or no title, thumbnail
\* or video info of the snapshot has the video id, and 200 otherwise.
C21_UnknownVideoIs404 ==
    (output # Nothing /\ input.op = "video") =>
        IF input.query.service \in {"none", "YouTube"}
           /\ KnownVideo(input.query.videoID)
        THEN output.status = 200
        ELSE /\ output.status = 404
             /\ output.body.titles = <<>>
             /\ output.body.thumbnails = <<>>
             /\ output.body.videoDuration = <<>>

\* C22: a rebuild that sets updating_now sets it back to false in the end,
\* whether the rebuild succeeds or fails.
C22_UpdatingEventuallyCleared == updating_now ~> ~updating_now

\* the processes of the server and the lock each one waits for
Procs == Reloaders \cup Readers

WaitsForStrings(a) ==
    a \in Reloaders /\ rl[a].pc \in {"load", "publish"}

WaitsForDb(a) ==
    \/ a \in Reloaders /\ rl[a].pc \in {"check", "lock_db"}
    \/ a \in Readers /\ rd[a].pc = "wait_db"

HoldsStrings(b) ==
    \/ ss_writer = b
    \/ b \in Readers /\ rd[b].holds_strings

HoldsDb(b) == db_writer = b \/ b \in db_readers

\* a waits for a lock that b holds and that a cannot share with b
WaitsFor(a, b) ==
    /\ a # b
    /\ \/ /\ WaitsForStrings(a)
          /\ \/ ss_writer = b
             \/ rl[a].pc = "publish" /\ HoldsStrings(b)
       \/ /\ WaitsForDb(a)
          /\ \/ db_writer = b
             \/ a \in Reloaders /\ HoldsDb(b)

\* b is reached from a along at most n edges of WaitsFor
RECURSIVE Reaches(_, _, _)
Reaches(a, b, n) ==
    /\ n > 0
    /\ \/ WaitsFor(a, b)
       \/ \E c \in Procs : WaitsFor(a, c) /\ Reaches(c, b, n - 1)

Contributing(rows) == SelectSeq(rows, Contributes)

\* the rows in every order
Orders(rows) ==
    {[i \in 1..Len(rows) |-> rows[f[i]]] :
        f \in {g \in [1..Len(rows) -> 1..Len(rows)] :
                  \A i, j \in 1..Len(rows) : g[i] = g[j] => i = j}}

\* the (video id, video_duration, has_outro) a load of the rows gives
Canonical(rows) ==
    {<<v.video_id.str, v.video_duration, v.has_outro>> :
        v \in Load([EmptyMirror EXCEPT !.sponsor_times = rows], {}, 1).db.video_infos}

\* the rows that do not pass the filter change nothing
C24_OnlyContributing ==
    output # Nothing =>
        Canonical(Contributing(input.sponsor_times)) = Canonical(input.sponsor_times)

\* video_duration is that of a latest contributing row, has_outro the OR
C24_LatestAndOr ==
    output # Nothing =>
        LET rows == Contributing(input.sponsor_times)
        IN  \A v \in output.video_infos :
                /\ \E i \in 1..Len(rows) :
                      /\ rows[i].video_id = v.video_id.str
                      /\ rows[i].video_duration = v.video_duration
                      /\ \A j \in 1..Len(rows) :
                            rows[j].video_id = v.video_id.str
                                => rows[j].time_submitted <= rows[i].time_submitted
                /\ v.has_outro <=>
                      \E i \in 1..Len(rows) :
                          /\ rows[i].video_id = v.video_id.str
                          /\ rows[i].category = "outro"

\* the rows in any other order give the same results
C24_AnyOrder ==
    output # Nothing =>
        \A rows \in Orders(input.sponsor_times) :
            Canonical(rows) = Canonical(input.sponsor_times)

\* C24: only the rows that pass the filter contribute; the video_duration
\* of a video is that of its contributing row with the latest
\* time_submitted, its has_outro the OR of category = "outro" over its
\* contributing rows, and both are the same for every order of the rows.
C24_CanonicalDuration ==
    C24_OnlyContributing /\ C24_LatestAndOr /\ C24_AnyOrder

\* whether the stretch (k, k + 1) of the video lies in an uncut segment of v
InUncut(v, k) ==
    \E i \in 1..Len(v.uncut_segments) :
        /\ v.uncut_segments[i].offset <= k
        /\ k + 1 <= v.uncut_segments[i].offset + v.uncut_segments[i].length

\* whether the stretch (k, k + 1) lies in a row's segment clipped to [0, d]
InCut(rows, k, d) ==
    \E i \in 1..Len(rows) :
        rows[i].start_time <= k /\ k + 1 <= Min(rows[i].end_time, d)

WellFormedRows(rows) ==
    \A i \in 1..Len(rows) :
        0 <= rows[i].start_time /\ rows[i].start_time <= rows[i].end_time

\* C25: for contributing segments with 0 <= start <= end and a positive
\* duration D, the uncut segments are exactly the complement of the union
\* of the cuts clipped to [0, D].
C25_UncutIsComplement ==
    output # Nothing =>
        LET rows == Contributing(input.sponsor_times)
        IN  \A v \in output.video_infos :
                (v.video_duration > 0 /\ WellFormedRows(rows)) =>
                    \A k \in 0..(v.video_duration - 1) :
                        InUncut(v, k) <=> ~InCut(rows, k, v.video_duration)

\* the contributing rows of video x
RowsOfVideo(x) ==
    SelectSeq(Contributing(input.sponsor_times), LAMBDA row : row.video_id = x)

\* the video_duration of the rows of video x submitted last
LatestDurations(x) ==
    LET rows == RowsOfVideo(x)
    IN  {rows[i].video_duration : i \in
            {n \in 1..Len(rows) :
                \A j \in 1..Len(rows) :
                    rows[j].time_submitted <= rows[n].time_submitted}}

\* the largest end_time of the rows of video x
LargestEnd(x) ==
    LET rows == RowsOfVideo(x)
    IN  CHOOSE e \in {rows[i].end_time : i \in 1..Len(rows)} :
            \A i \in 1..Len(rows) : rows[i].end_time <= e

\* C26: a video whose canonical video_duration is not positive has its
\* uncut fractions computed against the largest end_time of its
\* contributing segments and still reports the canonical value; a video is
\* left out of video_infos only if it has neither a positive duration nor
\* a contributing segment.
C26_DurationFallback ==
    output # Nothing =>
        /\ \A v \in output.video_infos :
              (\A d \in LatestDurations(v.video_id.str) : d <= 0) =>
                  /\ v.video_duration \in LatestDurations(v.video_id.str)
                  /\ v.unit = LargestEnd(v.video_id.str)
        /\ \A x \in {"a", "b"} :
              RowsOfVideo(x) # <<>> =>
                  \E v \in output.video_infos : v.video_id.str = x

\* C27: get_video_info finds every VideoInfo a load stored, the bucket it
\* searches being the bucket the VideoInfo was stored in, and no video id
\* has two VideoInfos.
C27_LookupFindsStored ==
    output # Nothing =>
        /\ \A v \in output.video_infos :
              /\ v.bucket = compute_hashprefix(v.video_id.str)
              /\ get_video_info([video_infos |-> output.video_infos], v.video_id)
                    = <<v>>
        /\ \A v, w \in output.video_infos :
              v.video_id = w.video_id => v = w

\* the videos of the snapshot that have a title, a thumbnail or a VideoInfo
\* and whose digest prefix is hash_prefix
VideosOfPrefix(d, hash_prefix) ==
    {v \in {d.titles[i].video_id.str : i \in 1..Len(d.titles)}
            \cup {d.thumbnails[i].video_id.str : i \in 1..Len(d.thumbnails)}
            \cup {x.video_id.str : x \in d.video_infos} :
        compute_hashprefix(v) = hash_prefix}

\* C28: the object the per-prefix response holds under a video equals the
\* response of GET /branding?videoID= for that video and the same
\* returnUserID and fetchAll: the same titles and thumbnails in the same
\* order, the same randomTime and videoDuration.
C28_EndpointsAgree ==
    (output # Nothing /\ input.op = "chunk" /\ output.status = 200) =>
        \A v \in VideosOfPrefix(input.db, from_str_radix(input.query.path)) :
            /\ v \in DOMAIN output.body
            /\ \E r \in VideoBranding([input EXCEPT !.query.videoID = v]) :
                  r.status = 200 /\ r.body = output.body[v]

\* the known video infos whose uncut_segments are non-empty, sorted and
\* disjoint, with the random time answered for each
WellFormedTimes ==
    {k \in KnownTimes :
        /\ k[1].uncut_segments # <<>>
        /\ UncutInvariant(k[1].uncut_segments, k[1].unit)}

\* whether the random time k[2] lies within uncut segment j of k[1]
Within(k, j) ==
    /\ k[1].uncut_segments[j].offset * DrawUnit <= k[2].num
    /\ k[2].num <= (k[1].uncut_segments[j].offset
                        + k[1].uncut_segments[j].length) * DrawUnit

\* C29: for a known VideoInfo with non-empty, sorted, disjoint
\* uncut_segments and every draw in [0, 1), the random time, a fraction of
\* the video, lies within [offset, offset + length] of one of the uncut
\* segments; without an outro a draw above 0.9 is first reduced by 0.9.
C29_RandomTimeInUncut ==
    (output # Nothing /\ output.status = 200) =>
        \A k \in WellFormedTimes :
            /\ k[2].den = DrawUnit * k[1].unit
            /\ \E j \in 1..Len(k[1].uncut_segments) : Within(k, j)
            /\ (~k[1].has_outro /\ input.alea[k[1].video_id.str] * 10 > 9 * DrawUnit)
                   => k[2].num = MappedFraction(k[1])

\* a draw above 0.9 for a video without outro whose first uncut segment
\* starts after a cut
C29_Witness ==
    /\ output # Nothing
    /\ output.status = 200
    /\ \E k \in WellFormedTimes :
          /\ ~k[1].has_outro
          /\ input.alea[k[1].video_id.str] * 10 > 9 * DrawUnit
          /\ k[1].uncut_segments[1].offset > 0
          /\ Within(k, 1)

\* the prefix a row of video v with hashedVideoID h is to get
ExpectedPrefix(h, v) ==
    IF Len(h) >= 4 /\ from_str_radix(SubSeq(h, 1, 4)) # -1
    THEN from_str_radix(SubSeq(h, 1, 4))
    ELSE compute_hashprefix(v)

\* the rows of file f of the mirror whose UUID is u
RowsWithUuid(f, u) ==
    {i \in 1..Len(input.mirror[f]) : input.mirror[f][i].uuid = u}

\* the mirror with every hashedVideoID replaced by the digest of the row's
\* video id
Repaired(mirror) ==
    LET Fix(rows) ==
            [i \in 1..Len(rows) |->
                [rows[i] EXCEPT !.hashed_video_id = Hashed(rows[i].video_id)]]
    IN  [mirror EXCEPT !.titles = Fix(mirror.titles),
                       !.thumbnails = Fix(mirror.thumbnails),
                       !.sponsor_times = Fix(mirror.sponsor_times)]

\* C30: whatever the hashedVideoID of a titles, thumbnails or sponsorTimes
\* row is (empty, shorter than four characters, not hexadecimal), the load
\* returns, the row is kept as it would be with a well-formed field, and
\* its hash_prefix is the parsed first four characters or else the digest
\* prefix of the video id.
C30_MalformedHashFallsBack ==
    output # Nothing =>
        LET good == Load(Repaired(input.mirror), {}, 1)
        IN  /\ output.result = good.result
            /\ good.result = "ok" =>
                  /\ {output.db.titles[i].uuid.str : i \in 1..Len(output.db.titles)}
                        = {good.db.titles[i].uuid.str : i \in 1..Len(good.db.titles)}
                  /\ {output.db.thumbnails[i].uuid.str :
                          i \in 1..Len(output.db.thumbnails)}
                        = {good.db.thumbnails[i].uuid.str :
                              i \in 1..Len(good.db.thumbnails)}
                  /\ {v.video_id.str : v \in output.db.video_infos}
                        = {v.video_id.str : v \in good.db.video_infos}
                  /\ \A i \in 1..Len(output.db.titles) :
                        \E n \in RowsWithUuid("titles", output.db.titles[i].uuid.str) :
                            output.db.titles[i].hash_prefix
                                = ExpectedPrefix(input.mirror.titles[n].hashed_video_id,
                                                 input.mirror.titles[n].video_id)
                  /\ \A i \in 1..Len(output.db.thumbnails) :
                        \E n \in RowsWithUuid("thumbnails",
                                              output.db.thumbnails[i].uuid.str) :
                            output.db.thumbnails[i].hash_prefix
                                = ExpectedPrefix(
                                      input.mirror.thumbnails[n].hashed_video_id,
                                      input.mirror.thumbnails[n].video_id)
                  /\ \A v \in output.db.video_infos :
                        \E n \in 1..Len(input.mirror.sponsor_times) :
                            /\ input.mirror.sponsor_times[n].video_id = v.video_id.str
                            /\ v.bucket = ExpectedPrefix(
                                   input.mirror.sponsor_times[n].hashed_video_id,
                                   input.mirror.sponsor_times[n].video_id)
====
